---- MODULE Spec2Model ----
(***************************************************************************)
(* CodeGuard AI: the analysis request (project profiling, context and      *)
(* prompt assembly, the model-call retry loop of analyzeCodebase, the App   *)
(* state around it) and the quality validator of a returned report.        *)
(* Texts are TLA+ strings; the string operations of the source are         *)
(* computed on them character by character.                                *)
(***************************************************************************)
EXTENDS Integers, Sequences, FiniteSets, TLC

(***************************************************************************)
(* Bounds of the model.                                                    *)
(***************************************************************************)
MaxFiles == 2
MaxFindings == 3
MaxSelected == 2

(***************************************************************************)
(* JavaScript string primitives.                                           *)
(***************************************************************************)
\* the lower-case letter of every upper-case letter, and the reverse
LowerOf ==
    [A |-> "a", B |-> "b", C |-> "c", D |-> "d", E |-> "e", F |-> "f", G |-> "g",
     H |-> "h", I |-> "i", J |-> "j", K |-> "k", L |-> "l", M |-> "m", N |-> "n",
     O |-> "o", P |-> "p", Q |-> "q", R |-> "r", S |-> "s", T |-> "t", U |-> "u",
     V |-> "v", W |-> "w", X |-> "x", Y |-> "y", Z |-> "z"]
UpperOf ==
    [a |-> "A", b |-> "B", c |-> "C", d |-> "D", e |-> "E", f |-> "F", g |-> "G",
     h |-> "H", i |-> "I", j |-> "J", k |-> "K", l |-> "L", m |-> "M", n |-> "N",
     o |-> "O", p |-> "P", q |-> "Q", r |-> "R", s |-> "S", t |-> "T", u |-> "U",
     v |-> "V", w |-> "W", x |-> "X", y |-> "Y", z |-> "Z"]
Digits == {"0", "1", "2", "3", "4", "5", "6", "7", "8", "9"}

isDigit(c) == c \in Digits
isLetter(c) == c \in DOMAIN LowerOf \/ c \in DOMAIN UpperOf

toLowerChar(c) == IF c \in DOMAIN LowerOf THEN LowerOf[c] ELSE c
toUpperChar(c) == IF c \in DOMAIN UpperOf THEN UpperOf[c] ELSE c

RECURSIVE toLowerCase(_)
toLowerCase(s) ==
    IF s = "" THEN ""
    ELSE IF Len(s) = 1 THEN toLowerChar(s)
    ELSE LET half == Len(s) \div 2
         IN  toLowerCase(SubSeq(s, 1, half)) \o toLowerCase(SubSeq(s, half + 1, Len(s)))

RECURSIVE toUpperCase(_)
toUpperCase(s) ==
    IF s = "" THEN ""
    ELSE IF Len(s) = 1 THEN toUpperChar(s)
    ELSE LET half == Len(s) \div 2
         IN  toUpperCase(SubSeq(s, 1, half)) \o toUpperCase(SubSeq(s, half + 1, Len(s)))

\* s.substring(from) and s.substring(0, to), zero-based as in the source
substringFrom(s, from) == IF from >= Len(s) THEN "" ELSE SubSeq(s, from + 1, Len(s))
substringTo(s, to) == IF to <= 0 THEN "" ELSE SubSeq(s, 1, IF to > Len(s) THEN Len(s) ELSE to)

\* the literal lit occurs in s at (one-based) position i
matchAt(s, i, lit) ==
    /\ i >= 1
    /\ i + Len(lit) - 1 <= Len(s)
    /\ (lit = "" \/ SubSeq(s, i, i + Len(lit) - 1) = lit)

includes(s, lit) == \E i \in 1..(Len(s) + 1) : matchAt(s, i, lit)
endsWith(s, lit) == Len(lit) <= Len(s) /\ matchAt(s, Len(s) - Len(lit) + 1, lit)

\* /a|b|c/ and /a|b|c/i over a set of literal alternatives
matchAny(s, lits) == \E lit \in lits : includes(s, lit)
matchAnyI(s, lits) == \E lit \in lits : includes(toLowerCase(s), toLowerCase(lit))

\* array.join(sep)
RECURSIVE join(_, _)
join(parts, sep) ==
    IF parts = <<>> THEN ""
    ELSE IF Len(parts) = 1 THEN parts[1]
    ELSE parts[1] \o sep \o join(Tail(parts), sep)

\* a deduction that grows with the count, without a cap
Min_uncapped(a, b) == b

\* Math.min(a, b)
Min(a, b) == IF a < b THEN a ELSE b
Max(a, b) == IF a > b THEN a ELSE b

\* array.filter(p).length for a predicate given as the set of passing indices
SelectIdx(seq, P(_)) == {i \in 1..Len(seq) : P(seq[i])}

(***************************************************************************)
(* Module registry (promptLibrary): id, name, priority and the detection   *)
(* predicate of each analysis module, in registry order.                   *)
(***************************************************************************)
somefile(files, P(_)) == \E i \in 1..Len(files) : P(files[i])

FRONTEND_REACT_detect(files) ==
    somefile(files, LAMBDA f :
        \/ endsWith(f.path, ".tsx") \/ endsWith(f.path, ".jsx")
        \/ includes(f.content, "import React")
        \/ includes(f.content, "from \"react\""))

FRONTEND_STATE_detect(files) ==
    somefile(files, LAMBDA f :
        \/ matchAnyI(f.content, {"redux", "zustand", "jotai", "recoil", "mobx", "xstate", "valtio"})
        \/ includes(f.content, "createContext")
        \/ includes(f.content, "useReducer"))

FRONTEND_STYLING_detect(files) ==
    somefile(files, LAMBDA f :
        \/ \E ext \in {".css", ".scss", ".sass", ".less"} : endsWith(f.path, ext)
        \/ matchAnyI(f.content, {"styled-components", "emotion", "tailwind", "@apply"})
        \/ includes(f.content, "className="))

BACKEND_API_detect(files) ==
    somefile(files, LAMBDA f :
        \/ matchAnyI(f.content, {"express", "fastify", "koa", "hono", "elysia"})
        \/ matchAnyI(f.content, {"app.get", "app.post", "app.put", "app.delete", "app.patch"})
        \/ matchAnyI(f.content, {"@Get", "@Post", "@Put", "@Delete", "@Controller"})
        \/ includes(f.path, "routes")
        \/ includes(f.path, "controllers")
        \/ includes(f.path, "api"))

BACKEND_DATABASE_detect(files) ==
    somefile(files, LAMBDA f :
        \/ matchAnyI(f.content, {"prisma", "typeorm", "sequelize", "mongoose", "drizzle"})
        \/ matchAnyI(f.content, {"SELECT", "INSERT", "UPDATE", "DELETE", "FROM", "WHERE"})
        \/ includes(f.content, "await db.")
        \/ includes(f.content, ".query(")
        \/ includes(f.content, ".execute("))

BACKEND_SECURITY_detect(files) ==
    somefile(files, LAMBDA f :
        \/ matchAnyI(f.content, {"password", "token", "secret", "api_key", "auth", "jwt"})
        \/ includes(f.content, "crypto")
        \/ includes(f.content, "bcrypt")
        \/ includes(f.path, "auth"))

BACKEND_ARCHITECTURE_detect_smallOnly(files) ==
    /\ Len(files) <= 20
    /\ somefile(files, LAMBDA f :
        \/ includes(f.path, "services")
        \/ includes(f.path, "repositories")
        \/ includes(f.path, "domain")
        \/ includes(f.path, "infrastructure"))

BACKEND_ARCHITECTURE_detect(files) ==
    \/ Len(files) > 20
    \/ somefile(files, LAMBDA f :
        \/ includes(f.path, "services")
        \/ includes(f.path, "repositories")
        \/ includes(f.path, "domain")
        \/ includes(f.path, "infrastructure"))

BACKEND_OBSERVABILITY_detect(files) ==
    somefile(files, LAMBDA f :
        \/ matchAnyI(f.content, {"console.log", "console.error", "console.warn"})
        \/ matchAnyI(f.content, {"winston", "pino", "bunyan", "logger"})
        \/ includes(f.content, "try")
        \/ includes(f.content, "catch"))

INFRASTRUCTURE_detect(files) ==
    somefile(files, LAMBDA f :
        \/ matchAnyI(f.path, {"docker", "k8s", "terraform", "cloudformation", ".yaml"})
        \/ endsWith(toLowerCase(f.path), ".yml")
        \/ includes(f.content, "FROM ")
        \/ includes(f.content, "apiVersion:")
        \/ includes(f.content, "resource \"aws_"))

ALL_MODULES == <<
    [id |-> "frontend_react",        name |-> "React/Next.js Analysis",                priority |-> 8],
    [id |-> "frontend_state",        name |-> "State Management Analysis",             priority |-> 7],
    [id |-> "frontend_styling",      name |-> "Styling & UI Performance",              priority |-> 5],
    [id |-> "backend_api",           name |-> "API & Service Layer",                   priority |-> 9],
    [id |-> "backend_database",      name |-> "Database & ORM Optimization",           priority |-> 10],
    [id |-> "backend_security",      name |-> "Security Audit",                        priority |-> 10],
    [id |-> "backend_architecture",  name |-> "System Architecture & Design Patterns", priority |-> 7],
    [id |-> "backend_observability", name |-> "Logging, Monitoring & Reliability",     priority |-> 6],
    [id |-> "infrastructure",        name |-> "Infrastructure & Deployment",           priority |-> 6] >>

detectCondition(m, files) ==
    CASE m.id = "frontend_react"        -> FRONTEND_REACT_detect(files)
      [] m.id = "frontend_state"        -> FRONTEND_STATE_detect(files)
      [] m.id = "frontend_styling"      -> FRONTEND_STYLING_detect(files)
      [] m.id = "backend_api"           -> BACKEND_API_detect(files)
      [] m.id = "backend_database"      -> BACKEND_DATABASE_detect(files)
      [] m.id = "backend_security"      -> BACKEND_SECURITY_detect(files)
      [] m.id = "backend_architecture"  -> BACKEND_ARCHITECTURE_detect(files)
      [] m.id = "backend_observability" -> BACKEND_OBSERVABILITY_detect(files)
      [] m.id = "infrastructure"        -> INFRASTRUCTURE_detect(files)

\* Array.prototype.filter
filterSeq(seq, P(_)) ==
    LET F[i \in 0..Len(seq)] ==
            IF i = 0 THEN <<>>
            ELSE IF P(seq[i]) THEN Append(F[i - 1], seq[i])
            ELSE F[i - 1]
    IN  F[Len(seq)]

\* Array.prototype.sort with a comparator: a stable sort. Each element is
\* inserted in front of the first already placed element e with cmp(e, x) > 0.
insertSorted(sorted, x, cmp(_, _)) ==
    LET before == {j \in 1..Len(sorted) : cmp(sorted[j], x) > 0}
        pos == IF before = {} THEN Len(sorted) + 1
               ELSE CHOOSE j \in before : \A k \in before : j <= k
    IN  SubSeq(sorted, 1, pos - 1) \o <<x>> \o SubSeq(sorted, pos, Len(sorted))

sortBy(seq, cmp(_, _)) ==
    LET F[i \in 0..Len(seq)] ==
            IF i = 0 THEN <<>>
            ELSE CHOOSE r \in {insertSorted(sorted, seq[i], cmp) : sorted \in {F[i - 1]}} : TRUE
    IN  F[Len(seq)]

countFiles(files, P(_)) == Cardinality({i \in 1..Len(files) : P(files[i])})

detectModules_unsorted(files) ==
    filterSeq(ALL_MODULES, LAMBDA m : detectCondition(m, files))

\* lines 767-769: allModules.filter(detectCondition).sort(by priority, descending)
detectModules(files) ==
    CHOOSE sorted \in
        {sortBy(detected, LAMBDA a, b : b.priority - a.priority)
            : detected \in {filterSeq(ALL_MODULES, LAMBDA m : detectCondition(m, files))}}
        : TRUE

complexityOf_inclusive(totalFiles, moduleCount) ==
    IF totalFiles >= 100 \/ moduleCount >= 6 THEN "enterprise"
    ELSE IF totalFiles >= 50 \/ moduleCount >= 4 THEN "complex"
    ELSE IF totalFiles >= 20 \/ moduleCount >= 2 THEN "medium"
    ELSE "simple"

\* lines 772-779: the complexity tier from the two counts
complexityOf(totalFiles, moduleCount) ==
    IF totalFiles > 100 \/ moduleCount > 6 THEN "enterprise"
    ELSE IF totalFiles > 50 \/ moduleCount > 4 THEN "complex"
    ELSE IF totalFiles > 20 \/ moduleCount > 2 THEN "medium"
    ELSE "simple"

estimatedAnalysisDepthOf_standard(complexity, moduleCount) ==
    IF complexity = "enterprise" \/ moduleCount > 5 THEN "deep"
    ELSE "standard"

\* lines 801-806: the analysis depth from the tier and the module count
estimatedAnalysisDepthOf(complexity, moduleCount) ==
    IF complexity = "enterprise" \/ moduleCount > 5 THEN "deep"
    ELSE IF complexity = "complex" \/ moduleCount > 3 THEN "standard"
    ELSE "quick"

primaryLanguageOf_pythonOnTie(tsFiles, jsFiles, pyFiles) ==
    IF pyFiles > tsFiles /\ pyFiles >= jsFiles THEN "Python"
    ELSE IF jsFiles > tsFiles THEN "JavaScript"
    ELSE "TypeScript"

\* lines 785-787: the primary language from the three counts
primaryLanguageOf(tsFiles, jsFiles, pyFiles) ==
    IF pyFiles > tsFiles /\ pyFiles > jsFiles THEN "Python"
    ELSE IF jsFiles > tsFiles THEN "JavaScript"
    ELSE "TypeScript"

analyzeProject(files) ==
    CHOOSE profile \in
        { LET totalFiles == Len(files)
              complexity == complexityOf(totalFiles, Len(detectedModules))
              tsFiles == countFiles(files, LAMBDA f : endsWith(f.path, ".ts") \/ endsWith(f.path, ".tsx"))
              jsFiles == countFiles(files, LAMBDA f : endsWith(f.path, ".js") \/ endsWith(f.path, ".jsx"))
              pyFiles == countFiles(files, LAMBDA f : endsWith(f.path, ".py"))
              primaryLanguage == primaryLanguageOf(tsFiles, jsFiles, pyFiles)
              architecture ==
                  IF somefile(files, LAMBDA f : includes(f.path, "microservices") \/ includes(f.path, "services/"))
                  THEN "Microservices"
                  ELSE IF somefile(files, LAMBDA f : includes(f.content, "express") \/ includes(f.content, "fastify"))
                  THEN "Backend API"
                  ELSE IF somefile(files, LAMBDA f : endsWith(f.path, ".tsx") \/ endsWith(f.path, ".jsx"))
                  THEN "Frontend SPA"
                  ELSE "Monolithic"
          IN  [complexity |-> complexity,
               detectedModules |-> detectedModules,
               totalFiles |-> totalFiles,
               primaryLanguage |-> primaryLanguage,
               architecture |-> architecture,
               estimatedAnalysisDepth |->
                   estimatedAnalysisDepthOf(complexity, Len(detectedModules))]
          : detectedModules \in {detectModules(files)} }
        : TRUE

(***************************************************************************)
(* Prompt composition (promptLibrary.composeSystemInstruction and the      *)
(* prompt, schema and context builders of the analysis service).  The      *)
(* long fixed instruction texts are abbreviated to one line each.          *)
(***************************************************************************)
BASE_PROMPT == "You are CodeGuard AI, an elite software architect."

moduleSystemInstruction(m) == "## " \o toUpperCase(m.id) \o " INSTRUCTIONS"

mapNames(modules) == [i \in 1..Len(modules) |-> modules[i].name]

maxModulesFor_three(complexity) == 3

maxModulesFor(complexity) ==
    IF complexity = "enterprise" THEN 6
    ELSE IF complexity = "complex" THEN 4
    ELSE 3

selectModules(profile) ==
    SubSeq(profile.detectedModules, 1,
           Min(maxModulesFor(profile.complexity), Len(profile.detectedModules)))

composeSystemInstruction(profile) ==
    LET selectedModules == selectModules(profile)
        profileBlock ==
            "\n## PROJECT PROFILE\n- Complexity: " \o toUpperCase(profile.complexity)
            \o "\n- Total Files: " \o ToString(profile.totalFiles)
            \o "\n- Primary Language: " \o profile.primaryLanguage
            \o "\n- Architecture: " \o profile.architecture
            \o "\n- Analysis Depth: " \o toUpperCase(profile.estimatedAnalysisDepth)
            \o "\n- Detected Modules: " \o join(mapNames(profile.detectedModules), ", ") \o "\n"
        moduleParts[i \in 0..Len(selectedModules)] ==
            IF i = 0 THEN <<>>
            ELSE moduleParts[i - 1]
                 \o << "\n# " \o toUpperCase(selectedModules[i].name) \o "\n",
                       moduleSystemInstruction(selectedModules[i]) >>
        depthWord ==
            IF profile.estimatedAnalysisDepth = "deep" THEN "DEEP"
            ELSE IF profile.estimatedAnalysisDepth = "standard" THEN "THOROUGH"
            ELSE "CONCISE"
        finalBlock ==
            "\n## FINAL OUTPUT REQUIREMENTS\n1. Focus on the " \o ToString(Len(selectedModules))
            \o " module areas detected: " \o join(mapNames(selectedModules), ", ")
            \o "\n2. Prioritize issues by severity: CRITICAL > HIGH > MEDIUM > LOW"
            \o "\n3. For " \o profile.complexity \o " projects, go " \o depthWord
            \o "\n4. Provide QUANTIFIED impact"
            \o "\n5. Return STRICT JSON matching schema - no extra commentary"
            \o "\n6. Include at least one concrete code example for the most critical issue\n"
    IN  join(<<BASE_PROMPT, profileBlock>> \o moduleParts[Len(selectedModules)] \o <<finalBlock>>, "\n")

buildAnalysisPrompt(profile, customInstructions) ==
    LET userPart ==
            IF customInstructions # ""
            THEN "## USER-SPECIFIC INSTRUCTIONS (HIGHEST PRIORITY)\n\""
                 \o customInstructions \o "\"\n\n"
            ELSE ""
        moduleLines[i \in 0..Len(profile.detectedModules)] ==
            IF i = 0 THEN ""
            ELSE moduleLines[i - 1] \o ToString(i) \o ". " \o profile.detectedModules[i].name
                 \o " (Priority: " \o ToString(profile.detectedModules[i].priority) \o "/10)\n"
    IN  "# ANALYSIS REQUEST\n\n" \o userPart
        \o "## STANDARD CODEGUARD AI AUDIT\n"
        \o "Perform comprehensive analysis across these "
        \o ToString(Len(profile.detectedModules)) \o " detected areas:\n"
        \o moduleLines[Len(profile.detectedModules)]
        \o "\n## ANALYSIS DEPTH: " \o toUpperCase(profile.estimatedAnalysisDepth) \o "\n"
        \o "\n## REQUIRED OUTPUT\n"
        \o "\n**Return STRICT JSON only, no additional commentary.**\n"

enhancePromptForQuality(originalPrompt, attempt) ==
    originalPrompt
    \o "\n\n## QUALITY REQUIREMENTS (Retry Attempt " \o ToString(attempt) \o ")\n\n"
    \o "**Now retry the analysis with these quality standards.**\n"

buildEnhancedSchema(profile) ==
    [required |-> <<"highRiskHotspots", "bottlenecks", "antiPatterns",
                    "architecturalObservations", "optimizedCodeExample", "summary">>,
     hotspotRequired |-> <<"file", "issue", "impact", "category">>,
     bottleneckRequired |-> <<"location", "pattern", "reason", "suggestion", "category">>]

hasModule(profile, id) ==
    \E i \in 1..Len(profile.detectedModules) : profile.detectedModules[i].id = id

highPriorityPatterns(profile) ==
    (IF hasModule(profile, "backend_api") THEN {{"routes", "controllers", "api"}} ELSE {})
    \cup (IF hasModule(profile, "backend_database")
          THEN {{"models", "repositories", "schema", "prisma"}} ELSE {})
    \cup (IF hasModule(profile, "backend_security")
          THEN {{"auth", "security", "middleware"}} ELSE {})
    \cup (IF hasModule(profile, "frontend_react")
          THEN {{"components", "pages", "app.tsx", "index.tsx"}} ELSE {})
    \cup (IF hasModule(profile, "frontend_state")
          THEN {{"store", "state", "context", "redux", "zustand"}} ELSE {})

isHighPriority(f, profile) ==
    \E p \in highPriorityPatterns(profile) : matchAnyI(f.path, p)

prioritizeFiles_bySize(files, profile) ==
    sortBy(files, LAMBDA a, b : a.size - b.size)

prioritizeFiles(files, profile) ==
    sortBy(files, LAMBDA a, b :
        IF isHighPriority(a, profile) /\ ~isHighPriority(b, profile) THEN -1
        ELSE IF ~isHighPriority(a, profile) /\ isHighPriority(b, profile) THEN 1
        ELSE a.size - b.size)

MAX_TOTAL_CONTEXT_CHARS == 800000

fileHeader(file) ==
    "\n--- FILE: " \o file.path \o " (" \o ToString(file.size) \o " bytes) ---\n"

\* file.content.length.  The content field of a file record holds the leading
\* text of the file and the rest of the file, up to size characters, is blank
\* lines; fileHelpers builds every record with size = content.length.
contentLength(file) == file.size

\* lines 40-54: the profile header of the context
contextHeader(projectName, profile) ==
    LET moduleLines[i \in 0..Len(profile.detectedModules)] ==
            IF i = 0 THEN <<>>
            ELSE Append(moduleLines[i - 1],
                        "- " \o profile.detectedModules[i].name \o " (Priority: "
                        \o ToString(profile.detectedModules[i].priority) \o ")\n")
    IN  << "# PROJECT ANALYSIS REQUEST\n",
           "Project: " \o projectName \o "\n",
           "Complexity: " \o profile.complexity \o "\n",
           "Architecture: " \o profile.architecture \o "\n",
           "Primary Language: " \o profile.primaryLanguage \o "\n",
           "Total Files: " \o ToString(profile.totalFiles) \o "\n\n",
           "Detected Analysis Modules:\n" >>
        \o moduleLines[Len(profile.detectedModules)]
        \o << "\n# CODEBASE FILES\n\n" >>

exceedsLimit_inclusive(totalChars, cost) == totalChars + cost >= MAX_TOTAL_CONTEXT_CHARS

\* line 61 (and 345): the next file does not fit
exceedsLimit(totalChars, cost) == totalChars + cost > MAX_TOTAL_CONTEXT_CHARS

\* Array.prototype.indexOf: the first position holding the element, from 0
indexOf(seq, x) ==
    CHOOSE j \in 0..(Len(seq) - 1) :
        /\ seq[j + 1] = x
        /\ \A k \in 0..(j - 1) : seq[k + 1] # x

\* line 62: the truncation marker pushed for the first file that does not fit
truncationMarker_after(files, prioritizedFiles, file) ==
    "\n[...Context limit reached. "
    \o ToString(Len(files) - indexOf(prioritizedFiles, file) - 1)
    \o " files omitted...]\n"

truncationMarker(files, prioritizedFiles, file) ==
    "\n[...Context limit reached. "
    \o ToString(Len(files) - indexOf(prioritizedFiles, file))
    \o " files omitted...]\n"

\* lines 56-69: the prioritized files are pushed until the first one that does
\* not fit, which pushes the truncation marker and ends the loop.  The result
\* is the loop state at its end: the parts pushed, totalChars, and stopped
\* (whether the loop ended by break).
contextLoop(files, profile) ==
    CHOOSE result \in
        { LET loop[i \in 0..Len(prioritizedFiles)] ==
                  IF i = 0 THEN [parts |-> <<>>, totalChars |-> 0, stopped |-> FALSE]
                  ELSE CHOOSE next \in
                      { LET file == prioritizedFiles[i]
                            cost == Len(fileHeader(file)) + contentLength(file)
                        IN  IF prev.stopped THEN prev
                            ELSE IF exceedsLimit(prev.totalChars, cost)
                            THEN [parts |-> Append(prev.parts,
                                      truncationMarker(files, prioritizedFiles, file)),
                                  totalChars |-> prev.totalChars,
                                  stopped |-> TRUE]
                            ELSE [parts |-> prev.parts \o <<fileHeader(file), file.content>>,
                                  totalChars |-> prev.totalChars + cost,
                                  stopped |-> FALSE]
                        : prev \in {loop[i - 1]} }
                      : TRUE
          IN  loop[Len(prioritizedFiles)]
          : prioritizedFiles \in {prioritizeFiles(files, profile)} }
        : TRUE

\* lines 40-69: the context parts in the order they are pushed
buildContextParts(files, projectName, profile) ==
    contextHeader(projectName, profile) \o contextLoop(files, profile).parts

(***************************************************************************)
(* Model responses.  A response is either a rejection of the call or a     *)
(* text.  The sample texts are the JSON texts of sample objects and        *)
(* JSON.parse inverts that; every other text is a SyntaxError.  A parsed   *)
(* object records which keys it carries; a finding without category has    *)
(* the category NoCategory.                                                *)
(***************************************************************************)
NoCategory == "<undefined>"

HS_AUTH == [file |-> "auth/login.ts:45", issue |-> "Plaintext password comparison",
            impact |-> "Leaks 100% of credentials"]
HS_LOOP == [file |-> "user routes", issue |-> "Nested loops",
            impact |-> "It is slow"]
BN_QUERY == [location |-> "routes/users.ts:12", pattern |-> "N+1 Query Problem",
             reason |-> "1+N queries", suggestion |-> "Use a join"]

withCategory(finding, category) ==
    [k \in DOMAIN finding \cup {"category"} |->
        IF k = "category" THEN category ELSE finding[k]]

AllKeys == {"highRiskHotspots", "bottlenecks", "antiPatterns",
            "architecturalObservations", "optimizedCodeExample", "summary"}

parsedObject(keys, hotspots, bottlenecks) ==
    [keys |-> keys,
     highRiskHotspots |-> hotspots,
     bottlenecks |-> bottlenecks,
     antiPatterns |-> IF "antiPatterns" \in keys THEN <<"God Object">> ELSE <<>>,
     architecturalObservations |-> <<>>,
     optimizedCodeExample |-> IF "optimizedCodeExample" \in keys THEN "const u = 1" ELSE "",
     summary |-> IF "summary" \in keys THEN "Two issues found." ELSE ""]

OBJ_NOFIELDS == parsedObject({}, <<>>, <<>>)
OBJ_NOFINDINGS == parsedObject(AllKeys, <<>>, <<>>)
OBJ_CATEGORIZED ==
    parsedObject(AllKeys, <<withCategory(HS_AUTH, "Backend")>>, <<withCategory(BN_QUERY, "Backend")>>)
OBJ_UNCATEGORIZED ==
    parsedObject(AllKeys, <<withCategory(HS_AUTH, NoCategory)>>, <<withCategory(BN_QUERY, "Frontend")>>)
OBJ_NOBOTTLENECKS ==
    parsedObject(AllKeys \ {"bottlenecks"}, <<withCategory(HS_AUTH, NoCategory)>>, <<>>)
OBJ_PARTLY ==
    parsedObject(AllKeys,
        <<withCategory(HS_AUTH, "Backend"), withCategory(HS_LOOP, NoCategory)>>,
        <<withCategory(BN_QUERY, NoCategory)>>)

SampleObjects == {OBJ_NOFIELDS, OBJ_NOFINDINGS, OBJ_CATEGORIZED, OBJ_UNCATEGORIZED,
                  OBJ_NOBOTTLENECKS, OBJ_PARTLY}

\* the JSON text of a sample object
quoted(str) == "\"" \o str \o "\""
member(key, jsonValue) == quoted(key) \o ":" \o jsonValue
jsonArray(items) == "[" \o join(items, ",") \o "]"
jsonStrings(strs) == jsonArray([i \in 1..Len(strs) |-> quoted(strs[i])])
jsonFinding(f, fields) ==
    LET present == filterSeq(fields, LAMBDA k : k # "category" \/ f.category # NoCategory)
    IN  "{" \o join([i \in 1..Len(present) |-> member(present[i], quoted(f[present[i]]))], ",") \o "}"
jsonFindings(fs, fields) == jsonArray([i \in 1..Len(fs) |-> jsonFinding(fs[i], fields)])

JSON_stringify(obj) ==
    LET order == <<"highRiskHotspots", "bottlenecks", "antiPatterns",
                   "architecturalObservations", "optimizedCodeExample", "summary">>
        present == filterSeq(order, LAMBDA k : k \in obj.keys)
        valueOf(k) ==
            CASE k = "highRiskHotspots" ->
                    jsonFindings(obj.highRiskHotspots, <<"file", "issue", "impact", "category">>)
              [] k = "bottlenecks" ->
                    jsonFindings(obj.bottlenecks,
                                 <<"location", "pattern", "reason", "suggestion", "category">>)
              [] k = "antiPatterns" -> jsonStrings(obj.antiPatterns)
              [] k = "architecturalObservations" -> jsonStrings(obj.architecturalObservations)
              [] k = "optimizedCodeExample" -> quoted(obj.optimizedCodeExample)
              [] k = "summary" -> quoted(obj.summary)
    IN  "{" \o join([i \in 1..Len(present) |-> member(present[i], valueOf(present[i]))], ",") \o "}"

TEXT_EMPTY == ""
TEXT_GARBAGE == "I could not analyze this project"
TEXT_NOFIELDS == JSON_stringify(OBJ_NOFIELDS)
TEXT_NOFINDINGS == JSON_stringify(OBJ_NOFINDINGS)
TEXT_CATEGORIZED == JSON_stringify(OBJ_CATEGORIZED)
TEXT_UNCATEGORIZED == JSON_stringify(OBJ_UNCATEGORIZED)
TEXT_NOBOTTLENECKS == JSON_stringify(OBJ_NOBOTTLENECKS)
TEXT_PARTLY == JSON_stringify(OBJ_PARTLY)

\* a parser that answers an empty report where it should fail
JSON_parse_lenient(text) ==
    IF \E obj \in SampleObjects : JSON_stringify(obj) = text
    THEN [ok |-> TRUE, value |-> CHOOSE obj \in SampleObjects : JSON_stringify(obj) = text]
    ELSE [ok |-> TRUE, value |-> OBJ_NOFINDINGS]

\* JSON.parse: the object whose JSON text this is, a SyntaxError otherwise
JSON_parse(text) ==
    IF \E obj \in SampleObjects : JSON_stringify(obj) = text
    THEN [ok |-> TRUE, value |-> CHOOSE obj \in SampleObjects : JSON_stringify(obj) = text]
    ELSE [ok |-> FALSE, value |-> OBJ_NOFIELDS]

ResponseTexts == {TEXT_EMPTY, TEXT_GARBAGE, TEXT_NOFIELDS, TEXT_NOFINDINGS,
                  TEXT_CATEGORIZED, TEXT_UNCATEGORIZED, TEXT_NOBOTTLENECKS, TEXT_PARTLY}

\* what the model collaborator may answer to one call
ModelResponses ==
    {[rejected |-> TRUE, text |-> ""]} \cup {[rejected |-> FALSE, text |-> t] : t \in ResponseTexts}

Error(name, message, attempt) == [name |-> name, message |-> message, attempt |-> attempt]

TIMESTAMP == "2025-01-01T00:00:00.000Z"

\* `!x` on a string or a missing value
falsy(x) == x = "" \/ x = NoCategory

setCategory(findings, category) ==
    [i \in 1..Len(findings) |-> [findings[i] EXCEPT !.category = category]]

\* lines 110-129: the body of the try block after the call has settled.
\* The result is [threw |-> FALSE, report |-> r] or [threw |-> TRUE, error |-> e].
processResponse(response, projectName, files, attempt) ==
    LET threw(e) == [threw |-> TRUE, error |-> e, report |-> parsedObject({}, <<>>, <<>>)]
        jsonText == response.text
        parsed == JSON_parse(jsonText)
        result == parsed.value
        rawReport == [k \in DOMAIN result \cup {"projectName", "totalFilesScanned", "timestamp"} |->
                        CASE k = "projectName" -> projectName
                          [] k = "totalFilesScanned" -> Len(files)
                          [] k = "timestamp" -> TIMESTAMP
                          [] OTHER -> result[k]]
    IN  IF response.rejected THEN threw(Error("Error", "fetch failed", attempt))
        ELSE IF falsy(jsonText) THEN threw(Error("Error", "Empty response from AI", attempt))
        ELSE IF ~parsed.ok THEN threw(Error("SyntaxError", "Unexpected token", attempt))
        ELSE IF "highRiskHotspots" \notin result.keys
        THEN threw(Error("TypeError", "Cannot read properties of undefined (reading 'length')", attempt))
        ELSE IF Len(rawReport.highRiskHotspots) > 0 /\ falsy(rawReport.highRiskHotspots[1].category)
        THEN IF "bottlenecks" \notin result.keys
             THEN threw(Error("TypeError", "Cannot read properties of undefined (reading 'forEach')", attempt))
             ELSE [threw |-> FALSE,
                   error |-> Error("", "", attempt),
                   report |-> [rawReport EXCEPT
                        !.highRiskHotspots = setCategory(rawReport.highRiskHotspots, "General"),
                        !.bottlenecks = setCategory(rawReport.bottlenecks, "General")]]
        ELSE [threw |-> FALSE, error |-> Error("", "", attempt), report |-> rawReport]

(***************************************************************************)
(* Quality validator (QUALITY_STANDARDS, QualityValidator).                *)
(***************************************************************************)
Tiers == {"simple", "medium", "complex", "enterprise"}

MIN_FINDINGS ==
    [simple     |-> [hotspots |-> 0, bottlenecks |-> 1, antiPatterns |-> 1],
     medium     |-> [hotspots |-> 1, bottlenecks |-> 2, antiPatterns |-> 2],
     complex    |-> [hotspots |-> 2, bottlenecks |-> 3, antiPatterns |-> 3],
     enterprise |-> [hotspots |-> 3, bottlenecks |-> 4, antiPatterns |-> 4]]

SCORE_THRESHOLDS == [excellent |-> 90, good |-> 75, acceptable |-> 60, poor |-> 40]

LIMITS ==
    [summary       |-> [min |-> 50,  max |-> 500],
     issue         |-> [min |-> 20,  max |-> 200],
     impact        |-> [min |-> 30,  max |-> 300],
     optimizedCode |-> [min |-> 100, max |-> 5000]]

charAt(s, i) == IF i >= 1 /\ i <= Len(s) THEN SubSeq(s, i, i) ELSE ""

\* REQUIRED_PATTERNS.location.test(s):
\* /\.(ts|tsx|js|jsx|py|go|java|rs):[0-9]+|[A-Za-z]+\.tsx?:[0-9]+|function [A-Za-z]+/
locationPattern_test(s) ==
    \E i \in 1..Len(s) :
        \/ \E ext \in {"ts", "tsx", "js", "jsx", "py", "go", "java", "rs"} :
                /\ matchAt(s, i, "." \o ext \o ":")
                /\ isDigit(charAt(s, i + Len(ext) + 2))
        \/ /\ isLetter(charAt(s, i))
           /\ \E ext \in {"ts", "tsx"} :
                /\ matchAt(s, i + 1, "." \o ext \o ":")
                /\ isDigit(charAt(s, i + Len(ext) + 3))
        \/ /\ matchAt(s, i, "function ")
           /\ isLetter(charAt(s, i + 9))

QuantUnits == {"ms", "s", "MB", "KB", "GB", "%", "$", "x faster", "queries",
               "re-renders", "hour", "day"}

\* REQUIRED_PATTERNS.quantification.test(s):
\* /\d+(\.\d+)?(ms|s|MB|KB|GB|%|\$|x faster|queries|re-renders|hours?|days?)/i
\* a digit, optionally a point and digits, then a unit right after them
quantPattern_test(s) ==
    \E low \in {toLowerCase(s)} :
        LET unitAt(i) == \E u \in QuantUnits : matchAt(low, i, toLowerCase(u))
        IN  \E j \in 1..Len(low) :
                /\ isDigit(charAt(low, j))
                /\ \/ unitAt(j + 1)
                   \/ /\ charAt(low, j + 1) = "."
                      /\ \E k \in (j + 2)..Len(low) :
                            /\ \A d \in (j + 2)..k : isDigit(charAt(low, d))
                            /\ unitAt(k + 1)

NoField == "<undefined>"
Issue(severity, category, message, field) ==
    [severity |-> severity, category |-> category, message |-> message, field |-> field]

\* a rule that deducts without recording an issue
penalize_silent(st, cond, amount, issue) ==
    [score |-> IF cond THEN st.score - amount ELSE st.score, issues |-> st.issues]

\* one rule of a sub-scorer: if (cond) { issues.push(issue); score -= amount; }
\* (st is bound by the set constructor, which evaluates it once)
penalize(st, cond, amount, issue) ==
    CHOOSE next \in
        {(IF cond THEN [score |-> s.score - amount, issues |-> Append(s.issues, issue)] ELSE s)
            : s \in {st}} : TRUE

\* the score a sub-scorer returns, with the issues it has pushed
scored(st, score) == [score |-> score, issues |-> st.issues]

\* a sub-scorer that returns the raw score
clampScore_raw(score) == score

\* return Math.max(0, score)
clampScore(score) == Max(0, score)

countWhere(seq, P(_)) == Cardinality({i \in 1..Len(seq) : P(seq[i])})

checkCompleteness(rep, complexity) ==
    LET standards == MIN_FINDINGS[complexity]
        s0 == [score |-> 20, issues |-> <<>>]
        s1 == penalize(s0, Len(rep.highRiskHotspots) < standards.hotspots, 5,
                Issue("warning", "completeness",
                      "Expected at least " \o ToString(standards.hotspots) \o " hotspots for "
                      \o complexity \o " project, got " \o ToString(Len(rep.highRiskHotspots)), NoField))
        s2 == penalize(s1, Len(rep.bottlenecks) < standards.bottlenecks, 5,
                Issue("warning", "completeness",
                      "Expected at least " \o ToString(standards.bottlenecks) \o " bottlenecks, got "
                      \o ToString(Len(rep.bottlenecks)), NoField))
        s3 == penalize(s2, Len(rep.antiPatterns) < standards.antiPatterns, 3,
                Issue("warning", "completeness",
                      "Expected at least " \o ToString(standards.antiPatterns) \o " anti-patterns, got "
                      \o ToString(Len(rep.antiPatterns)), NoField))
        s4 == penalize(s3, rep.summary = "" \/ Len(rep.summary) < LIMITS.summary.min, 5,
                Issue("critical", "completeness", "Summary is missing or too short", "summary"))
        s5 == penalize(s4, rep.optimizedCodeExample = ""
                           \/ Len(rep.optimizedCodeExample) < LIMITS.optimizedCode.min, 5,
                Issue("critical", "completeness", "Optimized code example is missing or too short",
                      "optimizedCodeExample"))
        s6 == penalize(s5, Len(rep.architecturalObservations) = 0, 2,
                Issue("warning", "completeness", "No architectural observations provided",
                      "architecturalObservations"))
    IN  CHOOSE result \in {scored(s, clampScore(s.score)) : s \in {s6}} : TRUE

genericTerms == {"bad code", "poor quality", "needs improvement", "could be better",
                 "not optimal", "inefficient", "slow", "problems exist"}

checkSpecificity(rep) ==
    LET hotspotsWithoutLocation ==
            countWhere(rep.highRiskHotspots, LAMBDA h : ~locationPattern_test(h.file))
        bottlenecksWithoutLocation ==
            countWhere(rep.bottlenecks, LAMBDA b : ~locationPattern_test(b.location))
        hasGenericDescriptions ==
            \/ \E i \in 1..Len(rep.highRiskHotspots) :
                    LET low == toLowerCase(rep.highRiskHotspots[i].issue)
                    IN  \E term \in genericTerms : includes(low, term)
            \/ \E i \in 1..Len(rep.bottlenecks) :
                    LET low == toLowerCase(rep.bottlenecks[i].pattern)
                    IN  \E term \in genericTerms : includes(low, term)
        s0 == [score |-> 20, issues |-> <<>>]
        s1 == penalize(s0, hotspotsWithoutLocation > 0, Min(10, hotspotsWithoutLocation * 2),
                Issue("warning", "specificity",
                      ToString(hotspotsWithoutLocation) \o " hotspots lack specific file:line locations",
                      "highRiskHotspots"))
        s2 == penalize(s1, bottlenecksWithoutLocation > 0, Min(10, bottlenecksWithoutLocation * 2),
                Issue("warning", "specificity",
                      ToString(bottlenecksWithoutLocation) \o " bottlenecks lack specific locations",
                      "bottlenecks"))
        s3 == penalize(s2, hasGenericDescriptions, 5,
                Issue("warning", "specificity",
                      "Some findings use generic/vague descriptions instead of specific patterns",
                      NoField))
    IN  CHOOSE result \in {scored(s, clampScore(s.score)) : s \in {s3}} : TRUE

\* a check that looks for the quantity in the reason only
checkQuantification_reasonOnly(rep) ==
    LET hotspotsWithoutQuant ==
            countWhere(rep.highRiskHotspots, LAMBDA h : ~quantPattern_test(h.impact))
        bottlenecksWithoutQuant ==
            countWhere(rep.bottlenecks, LAMBDA b : ~quantPattern_test(b.reason))
        s0 == [score |-> 25, issues |-> <<>>]
        s1 == penalize(s0, hotspotsWithoutQuant > 0, Min(10, hotspotsWithoutQuant * 3),
                Issue("critical", "quantification",
                      ToString(hotspotsWithoutQuant)
                      \o " hotspots lack quantified impact (needs numbers: ms, $, %, etc)",
                      "highRiskHotspots"))
        s2 == penalize(s1, bottlenecksWithoutQuant > 0, Min(10, bottlenecksWithoutQuant * 3),
                Issue("critical", "quantification",
                      ToString(bottlenecksWithoutQuant) \o " bottlenecks lack quantified metrics",
                      "bottlenecks"))
        s3 == penalize(s2, ~quantPattern_test(rep.optimizedCodeExample), 5,
                Issue("warning", "quantification",
                      "Optimized code example should include performance improvement metrics",
                      "optimizedCodeExample"))
    IN  CHOOSE result \in {scored(s, Max(0, s.score)) : s \in {s3}} : TRUE

checkQuantification(rep) ==
    LET hotspotsWithoutQuant ==
            countWhere(rep.highRiskHotspots, LAMBDA h : ~quantPattern_test(h.impact))
        bottlenecksWithoutQuant ==
            countWhere(rep.bottlenecks,
                       LAMBDA b : ~quantPattern_test(b.reason) /\ ~quantPattern_test(b.suggestion))
        s0 == [score |-> 25, issues |-> <<>>]
        s1 == penalize(s0, hotspotsWithoutQuant > 0, Min(10, hotspotsWithoutQuant * 3),
                Issue("critical", "quantification",
                      ToString(hotspotsWithoutQuant)
                      \o " hotspots lack quantified impact (needs numbers: ms, $, %, etc)",
                      "highRiskHotspots"))
        s2 == penalize(s1, bottlenecksWithoutQuant > 0, Min(10, bottlenecksWithoutQuant * 3),
                Issue("critical", "quantification",
                      ToString(bottlenecksWithoutQuant) \o " bottlenecks lack quantified metrics",
                      "bottlenecks"))
        s3 == penalize(s2, ~quantPattern_test(rep.optimizedCodeExample), 5,
                Issue("warning", "quantification",
                      "Optimized code example should include performance improvement metrics",
                      "optimizedCodeExample"))
    IN  CHOOSE result \in {scored(s, clampScore(s.score)) : s \in {s3}} : TRUE

\* the Markdown code fence (three backquotes), written with tildes in the
\* texts of this module
CODE_FENCE == "~~~"

vaguePhrases == {"consider", "maybe", "could", "might want to", "try to"}

checkActionability(rep) ==
    LET vagueBottlenecks ==
            countWhere(rep.bottlenecks,
                       LAMBDA b : LET low == toLowerCase(b.suggestion)
                                  IN  \E phrase \in vaguePhrases : includes(low, phrase))
        lowCode == toLowerCase(rep.optimizedCodeExample)
        hasBefore == includes(lowCode, "before")
        hasAfter == includes(lowCode, "after")
        hasCodeBlocks ==
            \/ includes(rep.optimizedCodeExample, CODE_FENCE)
            \/ includes(rep.optimizedCodeExample, "//")
            \/ includes(rep.optimizedCodeExample, "const ")
            \/ includes(rep.optimizedCodeExample, "function ")
        s0 == [score |-> 20, issues |-> <<>>]
        s1 == penalize(s0, vagueBottlenecks > 0, Min(8, vagueBottlenecks * 2),
                Issue("warning", "actionability",
                      ToString(vagueBottlenecks)
                      \o " bottlenecks have vague suggestions (use imperative: \"Use X\", \"Replace Y with Z\")",
                      "bottlenecks"))
        s2 == penalize(s1, ~hasBefore \/ ~hasAfter, 5,
                Issue("warning", "actionability",
                      "Optimized code should show BEFORE and AFTER for clarity",
                      "optimizedCodeExample"))
        s3 == penalize(s2, ~hasCodeBlocks, 7,
                Issue("warning", "actionability",
                      "Optimized code example should contain actual code, not just descriptions",
                      "optimizedCodeExample"))
    IN  CHOOSE result \in {scored(s, clampScore(s.score)) : s \in {s3}} : TRUE

checkConsistency(rep) ==
    LET allIssues == [i \in 1..Len(rep.highRiskHotspots) |-> rep.highRiskHotspots[i].issue]
                     \o [i \in 1..Len(rep.bottlenecks) |-> rep.bottlenecks[i].pattern]
        \* allIssues.indexOf(item) !== index
        duplicates ==
            Cardinality({i \in 1..Len(allIssues) : \E j \in 1..(i - 1) : allIssues[j] = allIssues[i]})
        verboseAntiPatterns == countWhere(rep.antiPatterns, LAMBDA ap : Len(ap) > 100)
        tooShortObservations == countWhere(rep.architecturalObservations, LAMBDA obs : Len(obs) < 30)
        s0 == [score |-> 15, issues |-> <<>>]
        s1 == penalize(s0, Len(rep.summary) > LIMITS.summary.max, 2,
                Issue("info", "consistency",
                      "Summary exceeds recommended length (should be 2-3 sentences)", "summary"))
        s2 == penalize(s1, duplicates > 0, Min(5, duplicates * 2),
                Issue("warning", "consistency",
                      ToString(duplicates) \o " duplicate findings detected - each issue should be unique",
                      NoField))
        s3 == penalize(s2, verboseAntiPatterns > 0, 3,
                Issue("info", "consistency",
                      "Anti-patterns should be concise labels, not full descriptions", "antiPatterns"))
        s4 == penalize(s3, tooShortObservations > 0, 2,
                Issue("info", "consistency",
                      ToString(tooShortObservations) \o " architectural observations are too brief",
                      "architecturalObservations"))
    IN  CHOOSE result \in {scored(s, clampScore(s.score)) : s \in {s4}} : TRUE

\* the texts are the source's without their leading pictograph, and with the
\* arrow written ->
generateRecommendations(scores, issues, complexity) ==
    LET criticalIssues == filterSeq(issues, LAMBDA i : i.severity = "critical")
        critical ==
            IF Len(criticalIssues) > 0
            THEN <<"CRITICAL: Fix these issues before submission:">>
                 \o [i \in 1..Len(criticalIssues) |-> "  - " \o criticalIssues[i].message]
            ELSE <<>>
        hint(cond, text) == IF cond THEN <<text>> ELSE <<>>
    IN  critical
        \o hint(scores.quantification < 20,
                "Add quantified metrics: \"2.5s -> 45ms (55x faster)\", \"$2,040/year savings\"")
        \o hint(scores.specificity < 15,
                "Include specific locations: \"routes/users.ts:45\" not \"user routes\"")
        \o hint(scores.actionability < 15, "Provide concrete fixes with before/after code examples")
        \o hint(scores.completeness < 15,
                "Add more findings - expected " \o ToString(MIN_FINDINGS[complexity].bottlenecks)
                \o "+ bottlenecks for " \o complexity \o " projects")
        \o hint(scores.consistency < 12,
                "Ensure consistent formatting: concise anti-patterns, detailed observations")

\* a threshold test against the next band
passes_good(overallScore) == overallScore >= SCORE_THRESHOLDS.good

\* line 120
passes(overallScore) == overallScore >= SCORE_THRESHOLDS.acceptable

\* the QualityMetrics of the five results, in the order of the checks; every
\* check pushes its issues onto the one issues array
metricsOf(c1, c2, c3, c4, c5) ==
    LET scores == [completeness |-> c1.score,
                   specificity |-> c2.score,
                   quantification |-> c3.score,
                   actionability |-> c4.score,
                   consistency |-> c5.score]
        overallScore == scores.completeness + scores.specificity + scores.quantification
                        + scores.actionability + scores.consistency
    IN  [overallScore |-> overallScore,
         breakdown |-> scores,
         issues |-> c1.issues \o c2.issues \o c3.issues \o c4.issues \o c5.issues,
         passesThreshold |-> passes(overallScore)]

\* QualityValidator(complexity).validate(report)
validate(rep, complexity) ==
    CHOOSE metrics \in
        {[overallScore |-> m.overallScore,
          breakdown |-> m.breakdown,
          issues |-> m.issues,
          recommendations |-> generateRecommendations(m.breakdown, m.issues, complexity),
          passesThreshold |-> m.passesThreshold]
            : m \in {metricsOf(c1, c2, c3, c4, c5)
                        : c1 \in {checkCompleteness(rep, complexity)},
                          c2 \in {checkSpecificity(rep)},
                          c3 \in {checkQuantification(rep)},
                          c4 \in {checkActionability(rep)},
                          c5 \in {checkConsistency(rep)}}} : TRUE

(***************************************************************************)
(* geminiService.ts: the validator of the module reports.  It normalizes   *)
(* an architecture, security, cost or impact report to the lists of the    *)
(* validator above and scores them with relaxed checks.                    *)
(***************************************************************************)
Modules == {"architecture", "security", "cost", "impact"}

\* report.module; a report of types.ts carries no such field
moduleOf(rep) == IF "module" \in DOMAIN rep THEN rep.module ELSE "<undefined>"

normalize(rep) ==
    LET normalized ==
            [highRiskHotspots |-> <<>>, bottlenecks |-> <<>>, antiPatterns |-> <<>>,
             architecturalObservations |-> <<>>, optimizedCodeExample |-> "",
             summary |-> rep.summary]
        m == moduleOf(rep)
    IN  IF m = "architecture" THEN
            [normalized EXCEPT
                !.highRiskHotspots =
                    [i \in 1..Len(rep.topIssues) |->
                        [issue |-> rep.topIssues[i].title,
                         impact |-> rep.topIssues[i].severity,
                         file |-> "Project Level"]],
                !.architecturalObservations = rep.recommendations,
                !.antiPatterns = rep.quickWins]
        ELSE IF m = "security" THEN
            [normalized EXCEPT
                !.highRiskHotspots =
                    [i \in 1..Len(rep.vulnerabilities) |->
                        [issue |-> rep.vulnerabilities[i].id,
                         impact |-> rep.vulnerabilities[i].severity,
                         file |-> rep.vulnerabilities[i].file]],
                !.antiPatterns = rep.secretsFound,
                !.architecturalObservations = rep.hardeningChecklist,
                !.optimizedCodeExample =
                    join([i \in 1..Len(rep.vulnerabilities) |-> rep.vulnerabilities[i].remediation],
                         "\n\n")]
        ELSE IF m = "cost" THEN
            [normalized EXCEPT
                !.highRiskHotspots =
                    [i \in 1..Len(rep.topSavings) |->
                        [issue |-> rep.topSavings[i].item,
                         impact |-> rep.topSavings[i].savings,
                         file |-> "Infrastructure"]],
                !.bottlenecks =
                    [i \in 1..Len(rep.resourceTable) |->
                        [location |-> rep.resourceTable[i].resource,
                         pattern |-> rep.resourceTable[i].usage,
                         reason |-> rep.resourceTable[i].inefficiency,
                         suggestion |-> "Optimize resource usage"]]]
        ELSE IF m = "impact" THEN
            [normalized EXCEPT
                !.highRiskHotspots =
                    [i \in 1..Len(rep.affectedFlows) |->
                        [issue |-> rep.affectedFlows[i],
                         impact |-> rep.blastRadius,
                         file |-> "Flow"]],
                !.optimizedCodeExample = join(rep.refactorPlan, "\n")]
        ELSE normalized

\* the bottleneck and anti-pattern minimums and the optimized code are not
\* scored here (their penalties are commented out in the source)
checkCompleteness_relaxed(rep, complexity) ==
    LET standards == MIN_FINDINGS[complexity]
        s0 == [score |-> 20, issues |-> <<>>]
        s1 == penalize(s0, Len(rep.highRiskHotspots) < standards.hotspots, 5,
                Issue("warning", "completeness",
                      "Expected at least " \o ToString(standards.hotspots) \o " hotspots for "
                      \o complexity \o " project, got " \o ToString(Len(rep.highRiskHotspots)), NoField))
        s2 == penalize(s1, rep.summary = "" \/ Len(rep.summary) < LIMITS.summary.min, 5,
                Issue("critical", "completeness", "Summary is missing or too short", "summary"))
    IN  CHOOSE result \in {scored(s, clampScore(s.score)) : s \in {s2}} : TRUE

checkSpecificity_relaxed(rep) ==
    LET hotspotsWithoutLocation ==
            countWhere(rep.highRiskHotspots,
                       LAMBDA h : /\ ~locationPattern_test(h.file)
                                  /\ h.file # "Project Level"
                                  /\ h.file # "Infrastructure")
        bottlenecksWithoutLocation ==
            countWhere(rep.bottlenecks,
                       LAMBDA b : ~locationPattern_test(b.location) /\ b.location # "Project Level")
        s0 == [score |-> 20, issues |-> <<>>]
        s1 == penalize(s0, hotspotsWithoutLocation > 0, Min(10, hotspotsWithoutLocation * 2),
                Issue("warning", "specificity",
                      ToString(hotspotsWithoutLocation) \o " hotspots lack specific file:line locations",
                      "highRiskHotspots"))
        s2 == penalize(s1, bottlenecksWithoutLocation > 0, Min(10, bottlenecksWithoutLocation * 2),
                Issue("warning", "specificity",
                      ToString(bottlenecksWithoutLocation) \o " bottlenecks lack specific locations",
                      "bottlenecks"))
    IN  CHOOSE result \in {scored(s, clampScore(s.score)) : s \in {s2}} : TRUE

SeverityWords == {"Critical", "High", "Medium", "Low"}

checkQuantification_relaxed(rep) ==
    LET hotspotsWithoutQuant ==
            countWhere(rep.highRiskHotspots,
                       LAMBDA h : ~quantPattern_test(h.impact) /\ h.impact \notin SeverityWords)
        s0 == [score |-> 25, issues |-> <<>>]
        s1 == penalize(s0, hotspotsWithoutQuant > 0, Min(10, hotspotsWithoutQuant * 3),
                Issue("critical", "quantification",
                      ToString(hotspotsWithoutQuant) \o " hotspots lack quantified impact",
                      "highRiskHotspots"))
    IN  CHOOSE result \in {scored(s, clampScore(s.score)) : s \in {s1}} : TRUE

checkActionability_relaxed(rep) ==
    LET vagueBottlenecks ==
            countWhere(rep.bottlenecks,
                       LAMBDA b : LET low == toLowerCase(b.suggestion)
                                  IN  \E phrase \in vaguePhrases : includes(low, phrase))
        s0 == [score |-> 20, issues |-> <<>>]
        s1 == penalize(s0, vagueBottlenecks > 0, Min(8, vagueBottlenecks * 2),
                Issue("warning", "actionability",
                      ToString(vagueBottlenecks) \o " bottlenecks have vague suggestions",
                      "bottlenecks"))
    IN  CHOOSE result \in {scored(s, clampScore(s.score)) : s \in {s1}} : TRUE

checkConsistency_relaxed(rep) ==
    LET s0 == [score |-> 15, issues |-> <<>>]
        s1 == penalize(s0, Len(rep.summary) > LIMITS.summary.max, 2,
                Issue("info", "consistency",
                      "Summary exceeds recommended length (should be 2-3 sentences)", "summary"))
    IN  CHOOSE result \in {scored(s, clampScore(s.score)) : s \in {s1}} : TRUE

generateRecommendations_relaxed(scores, issues) ==
    LET criticalIssues == filterSeq(issues, LAMBDA i : i.severity = "critical")
        critical ==
            IF Len(criticalIssues) > 0
            THEN <<"CRITICAL: Fix these issues before submission:">>
                 \o [i \in 1..Len(criticalIssues) |-> "  - " \o criticalIssues[i].message]
            ELSE <<>>
    IN  critical
        \o (IF scores.quantification < 20
            THEN <<"Add quantified metrics where possible">> ELSE <<>>)

\* geminiService.ts: QualityValidator(complexity).validate(originalReport)
validate_relaxed(originalReport, complexity) ==
    CHOOSE metrics \in
        {[overallScore |-> m.overallScore,
          breakdown |-> m.breakdown,
          issues |-> m.issues,
          recommendations |-> generateRecommendations_relaxed(m.breakdown, m.issues),
          passesThreshold |-> m.passesThreshold]
            : m \in UNION {{metricsOf(c1, c2, c3, c4, c5)
                                : c1 \in {checkCompleteness_relaxed(rep, complexity)},
                                  c2 \in {checkSpecificity_relaxed(rep)},
                                  c3 \in {checkQuantification_relaxed(rep)},
                                  c4 \in {checkActionability_relaxed(rep)},
                                  c5 \in {checkConsistency_relaxed(rep)}}
                            : rep \in {normalize(originalReport)}}} : TRUE

(***************************************************************************)
(* OutputEnhancer (part_002 and geminiService.ts).  enhance works on a     *)
(* shallow copy of the report; its findings are never written.             *)
(***************************************************************************)
isWhiteSpace(c) == c \in {" ", "\n", "\t", "\r"}

\* String.prototype.trim
trim(s) ==
    IF \A i \in 1..Len(s) : isWhiteSpace(SubSeq(s, i, i)) THEN ""
    ELSE SubSeq(s,
            CHOOSE i \in 1..Len(s) :
                /\ ~isWhiteSpace(SubSeq(s, i, i))
                /\ \A j \in 1..(i - 1) : isWhiteSpace(SubSeq(s, j, j)),
            CHOOSE i \in 1..Len(s) :
                /\ ~isWhiteSpace(SubSeq(s, i, i))
                /\ \A j \in (i + 1)..Len(s) : isWhiteSpace(SubSeq(s, j, j)))

\* part_002, lines 493-499
enhanceSummary(report) ==
    LET hotspotsCount == Len(report.highRiskHotspots)
        bottlenecksCount == Len(report.bottlenecks)
        severity == IF hotspotsCount > 2 THEN "critical"
                    ELSE IF hotspotsCount > 0 THEN "important"
                    ELSE "minor"
    IN  trim("Analysis found " \o ToString(hotspotsCount) \o " high-risk hotspots and "
             \o ToString(bottlenecksCount) \o " performance bottlenecks requiring "
             \o severity \o " attention. " \o report.summary)

\* part_002, lines 501-513
addBeforeAfterStructure(code) ==
    IF includes(code, "BEFORE") \/ includes(code, "AFTER") THEN code
    ELSE "// BEFORE: Current implementation\n"
         \o substringTo(code, Len(code) \div 2)
         \o "\n\n// AFTER: Optimized version\n"
         \o substringFrom(code, Len(code) \div 2)
         \o "\n\n// Performance improvement: [Specific metrics needed]"

\* part_002, lines 477-491: the object enhance returns
enhance(report) ==
    LET summarized ==
            IF Len(report.summary) < 50
            THEN [report EXCEPT !.summary = enhanceSummary(report)]
            ELSE report
    IN  IF ~includes(toLowerCase(summarized.optimizedCodeExample), "before")
        THEN [summarized EXCEPT !.optimizedCodeExample = addBeforeAfterStructure(@)]
        ELSE summarized

\* geminiService.ts, lines 552-554
enhanceSummary_relaxed(report) == trim(report.summary \o " (Enhanced for clarity)")

\* geminiService.ts, lines 541-550: the object enhance returns
enhance_relaxed(report) ==
    IF Len(report.summary) < 50
    THEN [report EXCEPT !.summary = enhanceSummary_relaxed(report)]
    ELSE report

\* one call of enhance: the report object as the caller holds it after the
\* call (enhance assigns to its copy only), and what the call returned; no
\* statement of either enhance can throw on an AnalysisReport
enhanceCall(variant, report) ==
    [variant |-> variant,
     given |-> report,
     report |-> report,
     threw |-> FALSE,
     enhanced |-> IF variant = "part_002" THEN enhance(report) ELSE enhance_relaxed(report)]

(***************************************************************************)
(* The analysis request: App (handleFilesProcessed / handleReset) around   *)
(* analyzeCodebase and its retry loop.                                     *)
(***************************************************************************)
SampleFiles ==
    { [path |-> "src/App.tsx",     content |-> "import React from 'react'", size |-> 25],
      [path |-> "routes/users.ts", content |-> "app.get('/users', h)",      size |-> 20],
      [path |-> "README.md",       content |-> "hello",                     size |-> 5],
      [path |-> "auth/login.py",   content |-> "check(password)",           size |-> 15] }

\* the file lists a request may carry: up to MaxFiles distinct sample files
FileLists ==
    UNION { {fl \in [1..n -> SampleFiles] : \A i, j \in 1..n : i # j => fl[i] # fl[j]}
            : n \in 0..MaxFiles }

ProjectNames == {"demo"}
Instructions == {"", "Focus on auth"}

maxRetries == 2
BACKOFF_MS == 1000
TEMP_FIRST == 2
TEMP_RETRY == 1

VARIABLES
    apiKey,        \* process.env.API_KEY is set
    appState,      \* App: AppState
    report,        \* App: <<>> (null) or <<the report>>
    request,       \* arguments of the analyzeCodebase call under way
    pc,            \* position of the request
    locals,        \* analyzeCodebase: systemInstruction, contextParts, prompt, schema
    attempt,       \* analyzeCodebase: loop counter
    lastError,     \* analyzeCodebase: <<>> (null) or <<error>>
    inFlight,      \* generateContent calls issued and not yet settled
    sent,          \* the generateContent calls issued by this request
    received,      \* the responses to them
    events,        \* call / settle / delay, in order
    outcome,       \* <<>> or <<what analyzeCodebase returned or threw>>
    qvReport,      \* the report handed to the quality validator
    qvTier,        \* the complexity the validator was constructed with
    qvMetrics,     \* <<>> or <<the QualityMetrics validate returned>>
    relaxedMetrics, \* <<>> or <<the QualityMetrics geminiService's validate returned>>
    enhancements,  \* the calls of OutputEnhancer.enhance on the report, in order
    callerFiles,   \* the FileContent array the caller holds and passes to the core
    profiled,      \* <<>> or <<the latest analyzeProject call: its files and its result>>
    profiledBefore, \* <<>> or <<the analyzeProject call before the latest>>
    lastRun        \* <<>> or <<the latest context preparation of analyzeCodebase>>

requestVars == <<apiKey, appState, report, request, pc, locals, attempt, lastError,
                 inFlight, sent, received, events, outcome>>
qvVars == <<qvReport, qvTier, qvMetrics, relaxedMetrics, enhancements>>
projectVars == <<callerFiles, profiled, profiledBefore, lastRun>>
vars == <<requestVars, qvVars, projectVars>>

NoRequest == [files |-> <<>>, projectName |-> "", instructions |-> ""]
NoLocals == [systemInstruction |-> "", contextParts |-> <<>>, prompt |-> "",
             schema |-> buildEnhancedSchema(analyzeProject(<<>>))]

EmptyReport ==
    [projectName |-> "demo", totalFilesScanned |-> 0, timestamp |-> TIMESTAMP,
     highRiskHotspots |-> <<>>, bottlenecks |-> <<>>, antiPatterns |-> <<>>,
     architecturalObservations |-> <<>>, optimizedCodeExample |-> "", summary |-> ""]

NoValidation ==
    /\ qvReport = EmptyReport
    /\ qvTier = "simple"
    /\ qvMetrics = <<>>
    /\ relaxedMetrics = <<>>
    /\ enhancements = <<>>

NoProject ==
    /\ callerFiles = <<>>
    /\ profiled = <<>>
    /\ profiledBefore = <<>>
    /\ lastRun = <<>>

NoAnalysis ==
    /\ appState = "IDLE"
    /\ report = <<>>
    /\ request = NoRequest
    /\ pc = "none"
    /\ locals = NoLocals
    /\ attempt = 0
    /\ lastError = <<>>
    /\ inFlight = 0
    /\ sent = <<>>
    /\ received = <<>>
    /\ events = <<>>
    /\ outcome = <<>>

Init ==
    /\ NoValidation
    /\ NoProject
    /\ apiKey \in BOOLEAN
    /\ appState = "IDLE"
    /\ report = <<>>
    /\ request = NoRequest
    /\ pc = "none"
    /\ locals = NoLocals
    /\ attempt = 0
    /\ lastError = <<>>
    /\ inFlight = 0
    /\ sent = <<>>
    /\ received = <<>>
    /\ events = <<>>
    /\ outcome = <<>>

\* a loop that runs maxRetries retries after the first attempt
loopContinues_retriesAfterFirst(a) == a <= maxRetries + 1

\* line 89: the loop condition; line 135: the retry condition of the catch
loopContinues(a) == a <= maxRetries
retryAllowed(a) == a < maxRetries

\* lines 92-94
finalPrompt(prompt, a) == IF a > 1 THEN enhancePromptForQuality(prompt, a) ELSE prompt

\* a retry that also escalates the context
contextText_escalated(contextParts, a) ==
    IF a > 1 THEN join(contextParts, "") \o "\n## QUALITY REQUIREMENTS\n" ELSE join(contextParts, "")

\* line 99
contextText(contextParts, a) == join(contextParts, "")

temperature_constant(a) == TEMP_FIRST

\* line 106, in tenths
temperature(a) == IF a > 1 THEN TEMP_RETRY ELSE TEMP_FIRST

\* lines 96-108: the arguments of generateContent on attempt a
generateContentCall(loc, a) ==
    [attempt |-> a,
     model |-> "gemini-2.5-flash",
     context |-> contextText(loc.contextParts, a),
     prompt |-> finalPrompt(loc.prompt, a),
     systemInstruction |-> loc.systemInstruction,
     responseSchema |-> loc.schema,
     temperature |-> temperature(a)]

\* a catch that keeps the first error
catchError_keepFirst(previous, error) == IF previous # <<>> THEN previous ELSE <<error>>

\* line 133
catchError(previous, error) == <<error>>

\* a catch that retries at once
awaitsBackoff_never == FALSE

\* line 137: whether the catch suspends on the backoff timer
awaitsBackoff == BACKOFF_MS > 0

\* lines 21-79
prepare(req) ==
    LET projectProfile == analyzeProject(req.files)
    IN  [systemInstruction |-> composeSystemInstruction(projectProfile),
         contextParts |-> buildContextParts(req.files, req.projectName, projectProfile),
         prompt |-> buildAnalysisPrompt(projectProfile, req.instructions),
         schema |-> buildEnhancedSchema(projectProfile)]

Event(type, a) == [type |-> type, attempt |-> a]

\* App.handleFilesProcessed up to its first await (UploadZone is rendered
\* in the IDLE state only)
HandleFilesProcessed(files, projectName, instructions) ==
    /\ appState = "IDLE"
    /\ pc = "none"
    /\ appState' = "ANALYZING"
    /\ request' = [files |-> files, projectName |-> projectName, instructions |-> instructions]
    /\ pc' = "uiDelay"
    /\ locals' = NoLocals
    /\ attempt' = 0
    /\ lastError' = <<>>
    /\ sent' = <<>>
    /\ received' = <<>>
    /\ events' = <<>>
    /\ outcome' = <<>>
    /\ UNCHANGED <<apiKey, report, inFlight, qvVars, projectVars>>

\* the 500 ms timer fires: analyzeCodebase runs up to its first await
BeginAnalyze ==
    /\ pc = "uiDelay"
    /\ IF ~apiKey
       THEN /\ outcome' = <<[threw |-> TRUE, error |-> Error("Error", "API Key is missing.", 0)]>>
            /\ pc' = "thrown"
            /\ UNCHANGED <<locals, attempt, inFlight, sent, events>>
       ELSE LET loc == prepare(request)
            IN  /\ locals' = loc
                /\ attempt' = 1
                /\ IF loopContinues(1)
                   THEN /\ sent' = Append(sent, generateContentCall(loc, 1))
                        /\ inFlight' = inFlight + 1
                        /\ events' = Append(events, Event("call", 1))
                        /\ pc' = "awaiting"
                        /\ outcome' = outcome
                   ELSE /\ outcome' = <<[threw |-> TRUE, error |-> Error("Error", "Analysis failed", 0)]>>
                        /\ pc' = "thrown"
                        /\ UNCHANGED <<sent, inFlight, events>>
    /\ UNCHANGED <<apiKey, appState, report, request, lastError, received, qvVars, projectVars>>

\* line 144
throwLast(last) ==
    IF last # <<>> THEN [threw |-> TRUE, error |-> last[1]]
    ELSE [threw |-> TRUE, error |-> Error("Error", "Analysis failed", 0)]

\* the for statement after attempt++: the next call, or the throw after the loop
NextIteration(a, last) ==
    /\ attempt' = a
    /\ IF loopContinues(a)
       THEN /\ sent' = Append(sent, generateContentCall(locals, a))
            /\ inFlight' = IF pc = "awaiting" THEN inFlight ELSE inFlight + 1
            /\ pc' = "awaiting"
            /\ outcome' = outcome
       ELSE /\ outcome' = <<throwLast(last)>>
            /\ pc' = "thrown"
            /\ inFlight' = IF pc = "awaiting" THEN inFlight - 1 ELSE inFlight
            /\ sent' = sent

\* generateContent settles with response r: the rest of the try block, or the catch
ModelResponds(r) ==
    /\ pc = "awaiting"
    /\ inFlight > 0
    /\ received' = Append(received, r)
    /\ LET res == processResponse(r, request.projectName, request.files, attempt)
       IN  IF ~res.threw
           THEN /\ outcome' = <<[threw |-> FALSE, report |-> res.report]>>
                /\ pc' = "returned"
                /\ inFlight' = inFlight - 1
                /\ events' = Append(events, Event("settle", attempt))
                /\ UNCHANGED <<attempt, lastError, sent>>
           ELSE /\ lastError' = catchError(lastError, res.error)
                /\ IF retryAllowed(attempt) /\ awaitsBackoff
                   THEN /\ pc' = "backoff"
                        /\ inFlight' = inFlight - 1
                        /\ events' = Append(events, Event("settle", attempt))
                        /\ UNCHANGED <<attempt, sent, outcome>>
                   ELSE /\ NextIteration(attempt + 1, lastError')
                        /\ events' = IF loopContinues(attempt + 1)
                                     THEN events \o <<Event("settle", attempt), Event("call", attempt + 1)>>
                                     ELSE Append(events, Event("settle", attempt))
    /\ UNCHANGED <<apiKey, appState, report, request, locals, qvVars, projectVars>>

\* the backoff timer of the catch fires
BackoffElapsed ==
    /\ pc = "backoff"
    /\ NextIteration(attempt + 1, lastError)
    /\ events' = IF loopContinues(attempt + 1)
                 THEN events \o <<Event("delay", attempt), Event("call", attempt + 1)>>
                 ELSE Append(events, Event("delay", attempt))
    /\ UNCHANGED <<apiKey, appState, report, request, locals, lastError, received, qvVars, projectVars>>

\* App.handleFilesProcessed after analyzeCodebase returned (lines 22-23)
AppOnResult ==
    /\ pc = "returned"
    /\ report' = <<outcome[1].report>>
    /\ appState' = "COMPLETE"
    /\ pc' = "none"
    /\ UNCHANGED <<apiKey, request, locals, attempt, lastError, inFlight, sent,
                   received, events, outcome, qvVars, projectVars>>

\* App.handleFilesProcessed, the catch (lines 24-28)
AppOnError ==
    /\ pc = "thrown"
    /\ appState' = "ERROR"
    /\ pc' = "none"
    /\ UNCHANGED <<apiKey, report, request, locals, attempt, lastError, inFlight, sent,
                   received, events, outcome, qvVars, projectVars>>

\* a reset that keeps the report
reportAfterReset_kept(r) == r

\* App.tsx line 33
reportAfterReset(r) == <<>>

\* App.handleReset: the button of the dashboard and of the error screen
HandleReset ==
    /\ appState \in {"COMPLETE", "ERROR"}
    /\ appState' = "IDLE"
    /\ report' = reportAfterReset(report)
    /\ UNCHANGED <<apiKey, request, pc, locals, attempt, lastError, inFlight, sent,
                   received, events, outcome, qvVars, projectVars>>

Next ==
    \/ \E files \in FileLists, projectName \in ProjectNames, instructions \in Instructions :
            HandleFilesProcessed(files, projectName, instructions)
    \/ BeginAnalyze
    \/ \E r \in ModelResponses : ModelResponds(r)
    \/ BackoffElapsed
    \/ AppOnResult
    \/ AppOnError
    \/ HandleReset

Spec == Init /\ [][Next]_vars

(***************************************************************************)
(* Validation of reports.  The report is put together finding by finding  *)
(* from sample findings and texts and handed to validate.  validate does   *)
(* not depend on the order of the findings in a list, so the lists are     *)
(* enumerated in one order, up to MaxFindings findings in a report.        *)
(***************************************************************************)
RECURSIVE repeat(_, _)
repeat(str, n) == IF n = 0 THEN "" ELSE str \o repeat(str, n - 1)

SampleHotspots == <<
    [file |-> "auth/login.ts:45", issue |-> "Plaintext password comparison",
     impact |-> "Leaks 100% of credentials", category |-> "Backend"],
    [file |-> "user routes", issue |-> "Nested loops are slow",
     impact |-> "2.5s per page", category |-> "Frontend"],
    [file |-> "function getUser", issue |-> "N+1 Query Problem",
     impact |-> "$420/month", category |-> "Backend"] >>

SampleBottlenecks == <<
    [location |-> "routes/users.ts:12", pattern |-> "N+1 Query Problem",
     reason |-> "1+N queries", suggestion |-> "Use a join", category |-> "Backend"],
    [location |-> "db layer", pattern |-> "Inefficient loop",
     reason |-> "500ms per request", suggestion |-> "Consider caching", category |-> "Backend"],
    [location |-> "api/orders.js:7", pattern |-> "Sync IO",
     reason |-> "Blocks the event loop", suggestion |-> "Cache it, 55x faster", category |-> "Mixed"] >>

SampleAntiPatterns == << "God Object", repeat("very long description ", 5) >>

SUMMARY_10 == "Two issues"
SUMMARY_OK == "The project has two critical issues in the login and user routes."
SUMMARY_LONG == repeat("too long. ", 51)
SampleSummaries == {SUMMARY_10, SUMMARY_OK, SUMMARY_LONG}

CODE_NONE == ""
CODE_SHORT == "// BEFORE: 2.5s, AFTER: 45ms"
CODE_PROSE ==
    "Put a cache in front of the database and load the users of a page in one "
    \o "query instead of one query per user."
CODE_FULL ==
    "// BEFORE: 2.5s per request\nconst users = await loadAll()\n"
    \o "// AFTER: 45ms per request\nconst users = await cache.get(key)\n// 55x faster"
SampleCodes == {CODE_NONE, CODE_SHORT, CODE_PROSE, CODE_FULL}

OBSERVATION_SHORT == "Layering is respected"
OBSERVATION_OK == "The service layer depends on the persistence layer directly."
SampleObservations == {<<>>, <<OBSERVATION_SHORT>>, <<OBSERVATION_OK>>}

\* the findings of the module reports, and the rows of a cost report
SampleItems == <<
    [name |-> "Circular dependency between services", level |-> "High",
     file |-> "src/orders/service.ts:10", remediation |-> "Use parameterized queries"],
    [name |-> "Idle load balancer", level |-> "Saves 40% of the bill",
     file |-> "Infrastructure", remediation |-> "Remove it"],
    [name |-> "Unbounded retries", level |-> "Significant",
     file |-> "retry config", remediation |-> "Consider a cap"] >>

SampleResources == <<
    [resource |-> "Project Level", usage |-> "4 vCPU", inefficiency |-> "Idle 90% of the day"],
    [resource |-> "worker pool", usage |-> "16 GB", inefficiency |-> "Oversized"] >>

SampleBlastRadius == {"Medium", "Wide"}

EmptyModuleReport(m, summary, blastRadius) ==
    CASE m = "architecture" ->
            [module |-> m, summary |-> summary, topIssues |-> <<>>,
             recommendations |-> <<"Split the orders service">>,
             quickWins |-> <<"Remove dead code">>]
      [] m = "security" ->
            [module |-> m, summary |-> summary, vulnerabilities |-> <<>>,
             secretsFound |-> <<>>, hardeningChecklist |-> <<"Rotate the keys">>]
      [] m = "cost" ->
            [module |-> m, summary |-> summary, topSavings |-> <<>>, resourceTable |-> <<>>]
      [] m = "impact" ->
            [module |-> m, summary |-> summary, affectedFlows |-> <<>>,
             blastRadius |-> blastRadius,
             refactorPlan |-> <<"Extract the client", "Add tests">>]

\* the names of the findings of a module report, in their order
itemNames(rep) ==
    CASE rep.module = "architecture" ->
            [i \in 1..Len(rep.topIssues) |-> rep.topIssues[i].title]
      [] rep.module = "security" ->
            [i \in 1..Len(rep.vulnerabilities) |-> rep.vulnerabilities[i].id]
      [] rep.module = "cost" ->
            [i \in 1..Len(rep.topSavings) |-> rep.topSavings[i].item]
      [] rep.module = "impact" -> rep.affectedFlows

withItem(rep, it) ==
    CASE rep.module = "architecture" ->
            [rep EXCEPT !.topIssues = Append(@, [title |-> it.name, severity |-> it.level])]
      [] rep.module = "security" ->
            [rep EXCEPT !.vulnerabilities =
                Append(@, [id |-> it.name, severity |-> it.level, file |-> it.file,
                           remediation |-> it.remediation])]
      [] rep.module = "cost" ->
            [rep EXCEPT !.topSavings = Append(@, [item |-> it.name, savings |-> it.level])]
      [] rep.module = "impact" ->
            [rep EXCEPT !.affectedFlows = Append(@, it.name)]

rankIn(samples, x) == CHOOSE i \in 1..Len(samples) : samples[i] = x
\* x may be appended to list: the list stays in the order of the samples
inOrder(samples, list, x) ==
    IF list = <<>> THEN TRUE
    ELSE rankIn(samples, list[Len(list)]) <= rankIn(samples, x)

findings(rep) ==
    IF moduleOf(rep) \in Modules
    THEN Len(itemNames(rep)) + (IF rep.module = "cost" THEN Len(rep.resourceTable) ELSE 0)
    ELSE Len(rep.highRiskHotspots) + Len(rep.bottlenecks) + Len(rep.antiPatterns)

notValidated == qvMetrics = <<>> /\ relaxedMetrics = <<>>

InitQV ==
    /\ NoAnalysis
    /\ NoProject
    /\ apiKey = TRUE
    /\ qvTier \in Tiers
    /\ \E summary \in SampleSummaries :
        \/ \E code \in SampleCodes, obs \in SampleObservations :
                qvReport = [EmptyReport EXCEPT !.summary = summary,
                                               !.optimizedCodeExample = code,
                                               !.architecturalObservations = obs]
        \/ \E m \in Modules, blastRadius \in SampleBlastRadius :
                /\ m # "impact" => blastRadius = "Medium"
                /\ qvReport = EmptyModuleReport(m, summary, blastRadius)
    /\ qvMetrics = <<>>
    /\ relaxedMetrics = <<>>
    /\ enhancements = <<>>

AddHotspot(h) ==
    /\ notValidated
    /\ moduleOf(qvReport) \notin Modules
    /\ findings(qvReport) < MaxFindings
    /\ qvReport.bottlenecks = <<>> /\ qvReport.antiPatterns = <<>>
    /\ inOrder(SampleHotspots, qvReport.highRiskHotspots, h)
    /\ qvReport' = [qvReport EXCEPT !.highRiskHotspots = Append(@, h)]
    /\ UNCHANGED <<qvTier, qvMetrics, relaxedMetrics, enhancements, requestVars, projectVars>>

AddBottleneck(b) ==
    /\ notValidated
    /\ moduleOf(qvReport) \notin Modules
    /\ findings(qvReport) < MaxFindings
    /\ qvReport.antiPatterns = <<>>
    /\ inOrder(SampleBottlenecks, qvReport.bottlenecks, b)
    /\ qvReport' = [qvReport EXCEPT !.bottlenecks = Append(@, b)]
    /\ UNCHANGED <<qvTier, qvMetrics, relaxedMetrics, enhancements, requestVars, projectVars>>

AddAntiPattern(ap) ==
    /\ notValidated
    /\ moduleOf(qvReport) \notin Modules
    /\ findings(qvReport) < MaxFindings
    /\ inOrder(SampleAntiPatterns, qvReport.antiPatterns, ap)
    /\ qvReport' = [qvReport EXCEPT !.antiPatterns = Append(@, ap)]
    /\ UNCHANGED <<qvTier, qvMetrics, relaxedMetrics, enhancements, requestVars, projectVars>>

AddItem(it) ==
    /\ notValidated
    /\ moduleOf(qvReport) \in Modules
    /\ findings(qvReport) < MaxFindings
    /\ qvReport.module = "cost" => qvReport.resourceTable = <<>>
    /\ inOrder([i \in 1..Len(SampleItems) |-> SampleItems[i].name], itemNames(qvReport), it.name)
    /\ qvReport' = withItem(qvReport, it)
    /\ UNCHANGED <<qvTier, qvMetrics, relaxedMetrics, enhancements, requestVars, projectVars>>

AddResource(r) ==
    /\ notValidated
    /\ moduleOf(qvReport) = "cost"
    /\ findings(qvReport) < MaxFindings
    /\ inOrder(SampleResources, qvReport.resourceTable, r)
    /\ qvReport' = [qvReport EXCEPT !.resourceTable = Append(@, r)]
    /\ UNCHANGED <<qvTier, qvMetrics, relaxedMetrics, enhancements, requestVars, projectVars>>

\* part_002: new QualityValidator(qvTier).validate(qvReport)
Validate ==
    /\ notValidated
    /\ moduleOf(qvReport) \notin Modules
    /\ qvMetrics' = <<validate(qvReport, qvTier)>>
    /\ UNCHANGED <<qvReport, qvTier, relaxedMetrics, enhancements, requestVars, projectVars>>

\* geminiService.ts: new QualityValidator(qvTier).validate(qvReport)
ValidateRelaxed ==
    /\ notValidated
    /\ relaxedMetrics' = <<validate_relaxed(qvReport, qvTier)>>
    /\ UNCHANGED <<qvReport, qvTier, qvMetrics, enhancements, requestVars, projectVars>>

NextQV ==
    \/ \E i \in 1..Len(SampleHotspots) : AddHotspot(SampleHotspots[i])
    \/ \E i \in 1..Len(SampleBottlenecks) : AddBottleneck(SampleBottlenecks[i])
    \/ \E i \in 1..Len(SampleAntiPatterns) : AddAntiPattern(SampleAntiPatterns[i])
    \/ \E i \in 1..Len(SampleItems) : AddItem(SampleItems[i])
    \/ \E i \in 1..Len(SampleResources) : AddResource(SampleResources[i])
    \/ Validate
    \/ ValidateRelaxed

SpecQV == InitQV /\ [][NextQV]_vars

(***************************************************************************)
(* Project profiling and context preparation.  The caller holds a file     *)
(* list built by fileHelpers, analyzeProject profiles it, and the two      *)
(* analyzeCodebase variants of the analysis service assemble the context   *)
(* from it.  Long file texts are not spelled out: a record's content is    *)
(* the leading text and size is the length of the whole text.              *)
(***************************************************************************)
F_AUTH ==
    [path |-> "src/services/auth.tsx",
     content |-> "app.get('/login', h); SELECT password", size |-> 300000]
F_DEPLOY ==
    [path |-> "deploy/docker.yml", content |-> "tailwind redux try", size |-> 18]
F_PACKAGE ==
    [path |-> "src/index.js", content |-> "{}", size |-> 2]
F_QUERY ==
    [path |-> "db/query.py", content |-> "UPDATE users SET token = 1", size |-> 26]
F_SEED ==
    [path |-> "data/seeder.py", content |-> "[]", size |-> 799915]
F_HUGE ==
    [path |-> "src/components/Chart.tsx", content |-> "import React", size |-> 900000]

ProfileSamples == {F_AUTH, F_DEPLOY, F_PACKAGE, F_QUERY}
ContextSamples == {F_AUTH, F_DEPLOY, F_PACKAGE, F_SEED, F_HUGE}

\* a folder of n small source files that match no detection pattern
FolderSizes == {20, 50, 100}
folder(n) ==
    [i \in 1..n |-> [path |-> "lib/f" \o ToString(i) \o ".ts", content |-> "x", size |-> 1]]

ModuleTypes == {"architecture", "security"}

\* files.push({path, content, size}) of processFileList / processZipFile
SelectFile(f) ==
    /\ Len(callerFiles) < MaxSelected
    /\ \A i \in 1..Len(callerFiles) : callerFiles[i] # f
    /\ callerFiles' = Append(callerFiles, f)
    /\ UNCHANGED <<profiled, profiledBefore, lastRun, requestVars, qvVars>>

\* the same for every file of a folder, once and after the sample files
SelectFolder(n) ==
    /\ Len(callerFiles) <= MaxSelected
    /\ callerFiles' = callerFiles \o folder(n)
    /\ UNCHANGED <<profiled, profiledBefore, lastRun, requestVars, qvVars>>

\* a call analyzeProject(callerFiles)
AnalyzeProject ==
    /\ profiledBefore' = profiled
    /\ profiled' = <<[files |-> callerFiles, profile |-> analyzeProject(callerFiles)]>>
    /\ UNCHANGED <<callerFiles, lastRun, requestVars, qvVars>>

NextProfile ==
    \/ \E f \in ProfileSamples : SelectFile(f)
    \/ \E n \in FolderSizes : SelectFolder(n)
    \/ AnalyzeProject

InitProject ==
    /\ NoAnalysis
    /\ NoValidation
    /\ NoProject
    /\ apiKey \in BOOLEAN

SpecProfile == InitProject /\ [][NextProfile]_vars

NoLoop == [parts |-> <<>>, totalChars |-> 0, stopped |-> FALSE]

\* what a call of analyzeCodebase left behind when it threw before preparing
\* anything
threwRun(variant, given) ==
    [variant |-> variant, threw |-> TRUE, given |-> given,
     header |-> <<>>, loop |-> NoLoop]

\* analyzeCodebase of the adaptive service, lines 10-69: the API key check,
\* the profile, the system instruction composed from it, and the context
\* parts.  The caller's array is only read.
PrepareContext(projectName) ==
    /\ lastRun' =
          IF ~apiKey THEN <<threwRun("adaptive", callerFiles)>>
          ELSE CHOOSE run \in
                  { <<[variant |-> "adaptive", threw |-> FALSE, given |-> callerFiles,
                       profile |-> projectProfile,
                       systemInstruction |-> composeSystemInstruction(projectProfile),
                       header |-> contextHeader(projectName, projectProfile),
                       loop |-> contextLoop(callerFiles, projectProfile)]>>
                    : projectProfile \in {analyzeProject(callerFiles)} }
                  : TRUE
    /\ UNCHANGED <<callerFiles, profiled, profiledBefore, requestVars, qvVars>>

\* lines 332-336 of the multi-module analyzeCodebase
moduleContextHeader(files, projectName, module) ==
    << "# ANALYSIS CONTEXT\n",
       "Project: " \o projectName \o "\n",
       "Target Module: " \o toUpperCase(module) \o "\n",
       "Total Files: " \o ToString(Len(files)) \o "\n\n",
       "## SOURCE CODE\n" >>

\* line 340: files.sort((a, b) => b.size - a.size), which sorts the array it
\* is called on and returns that same array
sortedFiles(files) == sortBy(files, LAMBDA a, b : b.size - a.size)

moduleFileHeader(file) == "\n--- FILE: " \o file.path \o " ---\n"

REMAINING_OMITTED == "\n[...Context limit reached. Remaining files omitted...]\n"

\* lines 342-354: the loop over the sorted files
moduleContextLoop(sorted) ==
    LET loop[i \in 0..Len(sorted)] ==
            IF i = 0 THEN NoLoop
            ELSE CHOOSE next \in
                { LET file == sorted[i]
                      cost == Len(moduleFileHeader(file)) + contentLength(file)
                  IN  IF prev.stopped THEN prev
                      ELSE IF exceedsLimit(prev.totalChars, cost)
                      THEN [parts |-> Append(prev.parts, REMAINING_OMITTED),
                            totalChars |-> prev.totalChars,
                            stopped |-> TRUE]
                      ELSE [parts |-> prev.parts \o <<moduleFileHeader(file), file.content>>,
                            totalChars |-> prev.totalChars + cost,
                            stopped |-> FALSE]
                  : prev \in {loop[i - 1]} }
                : TRUE
    IN  loop[Len(sorted)]

\* the multi-module analyzeCodebase, lines 318-354: the API key check, then
\* the context from the caller's array sorted in place
PrepareModuleContext(projectName, module) ==
    IF ~apiKey
    THEN /\ lastRun' = <<threwRun("module", callerFiles)>>
         /\ UNCHANGED <<callerFiles, profiled, profiledBefore, requestVars, qvVars>>
    ELSE \E sorted \in {sortedFiles(callerFiles)} :
         /\ callerFiles' = sorted
         /\ lastRun' = <<[variant |-> "module", threw |-> FALSE, given |-> callerFiles,
                          header |-> moduleContextHeader(callerFiles, projectName, module),
                          loop |-> moduleContextLoop(sorted)]>>
         /\ UNCHANGED <<profiled, profiledBefore, requestVars, qvVars>>

NextContext ==
    \/ \E f \in ContextSamples : SelectFile(f)
    \/ \E projectName \in ProjectNames : PrepareContext(projectName)
    \/ \E projectName \in ProjectNames, module \in ModuleTypes :
            PrepareModuleContext(projectName, module)

SpecContext == InitProject /\ [][NextContext]_vars

(***************************************************************************)
(* Properties of the retry loop and of the App state.                      *)
(***************************************************************************)
isEmptyResponse(r) == ~r.rejected /\ r.text = ""
Threw == outcome # <<>> /\ outcome[1].threw
Returned == outcome # <<>> /\ ~outcome[1].threw
AllEmpty == received # <<>> /\ \A k \in 1..Len(received) : isEmptyResponse(received[k])

\* the events of n failed attempts with a delay between consecutive ones
RECURSIVE failedAttempts(_)
failedAttempts(n) ==
    IF n = 0 THEN <<>>
    ELSE IF n = 1 THEN <<Event("call", 1), Event("settle", 1)>>
    ELSE failedAttempts(n - 1) \o <<Event("delay", n - 1), Event("call", n), Event("settle", n)>>

\* C1 as stated: when every response is empty, the request fails after
\* exactly maxRetries + 1 model calls (3), a backoff delay between consecutive calls.
C1_AsStated ==
    (Threw /\ AllEmpty) =>
        /\ Len(sent) = maxRetries + 1
        /\ events = failedAttempts(maxRetries + 1)

\* C1 amended: when every response is empty, the request fails after exactly
\* maxRetries model calls (2: the first attempt and one retry), with the
\* backoff delay between the two, and the failure is the empty-response error.
C1_EmptyResponses ==
    (Threw /\ AllEmpty) =>
        /\ Len(sent) = maxRetries
        /\ Len(received) = maxRetries
        /\ events = failedAttempts(maxRetries)
        /\ outcome[1].error.message = "Empty response from AI"

C1_Witness == Threw /\ AllEmpty /\ pc = "thrown"

\* the response is non-empty text that parses as JSON
parsesAsJson(r) ==
    /\ ~r.rejected
    /\ r.text # ""
    /\ \E obj \in SampleObjects : JSON_stringify(obj) = r.text

\* ... and the parsed object carries the hotspot list, and the bottleneck
\* list where the category fallback runs over it
hasReportShape(r) ==
    /\ parsesAsJson(r)
    /\ \E obj \in SampleObjects :
        /\ JSON_stringify(obj) = r.text
        /\ "highRiskHotspots" \in obj.keys
        /\ (Len(obj.highRiskHotspots) > 0 /\ obj.highRiskHotspots[1].category = NoCategory)
                => "bottlenecks" \in obj.keys

\* C2 as stated: a report comes only from a non-empty response that parsed,
\* and the first response that parsed ends the loop: no call follows it.
C2_AsStated ==
    /\ Returned => parsesAsJson(received[Len(received)])
    /\ \A k \in 1..Len(received) : parsesAsJson(received[k]) => Len(sent) = k

\* C2 amended: a report comes only from a non-empty response that parsed as
\* JSON and carries the finding lists the category fallback reads; the first
\* such response ends the loop with that report, and no call follows it.
C2_ValidAttemptReturns ==
    /\ Returned =>
        /\ received # <<>>
        /\ hasReportShape(received[Len(received)])
    /\ \A k \in 1..Len(received) :
        hasReportShape(received[k]) =>
            /\ k = Len(received)
            /\ Len(sent) = k
            /\ Returned
            /\ inFlight = 0

C2_Witness ==
    /\ Returned
    /\ Len(received) = 2
    /\ received[1].text = TEXT_NOFIELDS
    /\ hasReportShape(received[2])

\* C3: when all attempts fail, the error thrown is the error of the last
\* attempt, and it is thrown only once the loop bound is used up.
C3_LastErrorThrown ==
    (Threw /\ apiKey) =>
        /\ Len(sent) = maxRetries
        /\ Len(received) = maxRetries
        /\ \A k \in 1..Len(received) :
              processResponse(received[k], request.projectName, request.files, k).threw
        /\ outcome[1].error =
              processResponse(received[maxRetries], request.projectName, request.files, maxRetries).error

C3_Witness ==
    /\ Threw /\ apiKey
    /\ Len(received) = 2
    /\ received[1].text = TEXT_GARBAGE
    /\ isEmptyResponse(received[2])

countEvents(type) == Cardinality({i \in 1..Len(events) : events[i].type = type})

\* C4: at most one model call is in flight, and every call after the first
\* is issued only after the previous call has settled and the backoff delay
\* has elapsed.
C4_OneCallInFlight ==
    /\ inFlight <= 1
    /\ inFlight = countEvents("call") - countEvents("settle")
    /\ \A i \in 1..Len(events) :
        (events[i].type = "call" /\ i > 1) =>
            /\ i > 2
            /\ events[i - 1] = Event("delay", events[i].attempt - 1)
            /\ events[i - 2] = Event("settle", events[i].attempt - 1)

C4_Witness == Len(sent) = 2 /\ inFlight = 1 /\ pc = "awaiting"

\* C5: every attempt of a request sends the same context, system
\* instruction and response schema; a retry changes the prompt only.
C5_ContextUnchanged ==
    \A i \in 1..Len(sent) :
        /\ sent[i].context = join(locals.contextParts, "")
        /\ sent[i].context = sent[1].context
        /\ sent[i].systemInstruction = sent[1].systemInstruction
        /\ sent[i].responseSchema = sent[1].responseSchema

C5_Witness ==
    /\ Len(sent) = 2
    /\ request.files # <<>>
    /\ sent[2].prompt # sent[1].prompt
    /\ sent[2].context = sent[1].context

QUALITY_HEADING == "## QUALITY REQUIREMENTS (Retry Attempt "

occurrences(text, lit) == {i \in 1..Len(text) : matchAt(text, i, lit)}

\* the prompt is the base prompt followed by one quality block, for attempt k
escalatedOnce(prompt, base, k) ==
    /\ Len(prompt) > Len(base)
    /\ SubSeq(prompt, 1, Len(base)) = base
    /\ Cardinality(occurrences(prompt, QUALITY_HEADING))
        = Cardinality(occurrences(base, QUALITY_HEADING)) + 1
    /\ includes(SubSeq(prompt, Len(base) + 1, Len(prompt)),
                QUALITY_HEADING \o ToString(k) \o ")")

\* C23: attempt 1 sends the base prompt at temperature 0.2 (2 tenths); every
\* later attempt k sends the base prompt followed by one quality block for
\* attempt k, at a temperature below that of attempt 1, and the temperature
\* never rises from one attempt to the next.
C23_Escalation ==
    \A i \in 1..Len(sent) :
        /\ sent[i].attempt = i
        /\ i = 1 => (sent[i].prompt = locals.prompt /\ sent[i].temperature = 2)
        /\ i > 1 => /\ escalatedOnce(sent[i].prompt, locals.prompt, i)
                    /\ sent[i].temperature < sent[1].temperature
                    /\ sent[i].temperature <= sent[i - 1].temperature

\* a retry was sent for a request that carries user instructions
C23_Witness ==
    /\ Len(sent) = 2
    /\ request.instructions # ""
    /\ sent[2].temperature = 1
    /\ Len(sent[2].prompt) > Len(sent[1].prompt)

\* C6: the App holds a report only in COMPLETE, and it is the report
\* analyzeCodebase returned; ERROR is entered on a throw and holds no report;
\* while the request is pending the state is ANALYZING and no report is
\* held; after a reset the state is IDLE and the report is cleared.
C6_NoInterimReport ==
    /\ report # <<>> => (appState = "COMPLETE" /\ Returned /\ report[1] = outcome[1].report)
    /\ appState = "COMPLETE" => report # <<>>
    /\ appState = "ERROR" => (report = <<>> /\ Threw)
    /\ appState = "IDLE" => report = <<>>
    /\ pc # "none" => (appState = "ANALYZING" /\ report = <<>>)
    /\ appState = "ANALYZING" => pc # "none"

C6_Witness == appState = "COMPLETE" /\ report # <<>> /\ Len(sent) = 2

(***************************************************************************)
(* Properties of the quality validators.                                   *)
(***************************************************************************)
\* the metrics the validators have returned in this state
Results ==
    {qvMetrics[i] : i \in 1..Len(qvMetrics)} \cup {relaxedMetrics[i] : i \in 1..Len(relaxedMetrics)}

Dimensions == {"completeness", "specificity", "quantification", "actionability", "consistency"}
DimensionMax ==
    [completeness |-> 20, specificity |-> 20, quantification |-> 25,
     actionability |-> 20, consistency |-> 15]

hasNoFindings(rep) ==
    /\ rep.highRiskHotspots = <<>>
    /\ rep.bottlenecks = <<>>
    /\ rep.antiPatterns = <<>>

\* C7: for every report and every complexity tier, each breakdown dimension
\* of the metrics validate returns lies between 0 and its maximum (20, 20,
\* 25, 20, 15), and overallScore is the sum of the five, hence within 0..100.
C7_ScoresInRange ==
    \A m \in Results :
        /\ \A d \in Dimensions : m.breakdown[d] >= 0 /\ m.breakdown[d] <= DimensionMax[d]
        /\ m.overallScore = m.breakdown.completeness + m.breakdown.specificity
                            + m.breakdown.quantification + m.breakdown.actionability
                            + m.breakdown.consistency
        /\ m.overallScore >= 0 /\ m.overallScore <= 100

\* a report whose completeness penalties add up to more than the 20 points
\* has been validated, and its completeness is 0
C7_Witness ==
    /\ qvMetrics # <<>>
    /\ qvTier \in {"complex", "enterprise"}
    /\ hasNoFindings(qvReport)
    /\ qvReport.architecturalObservations = <<>>
    /\ Len(qvReport.summary) < LIMITS.summary.min
    /\ Len(qvReport.optimizedCodeExample) < LIMITS.optimizedCode.min
    /\ qvMetrics[1].breakdown.completeness = 0

\* C8: for every result of validate, passesThreshold is true if and only if
\* overallScore is at least 60.
C8_PassesIffSixty ==
    \A m \in Results : m.passesThreshold <=> m.overallScore >= 60

\* a validated report that scores exactly the acceptable threshold, and passes
C8_Witness ==
    /\ qvMetrics # <<>>
    /\ qvMetrics[1].overallScore = SCORE_THRESHOLDS.acceptable
    /\ qvMetrics[1].passesThreshold

\* the report of C9: no findings, a 10-character summary, no optimized code
\* (for a module report: as the validator normalizes it)
isBareReport(rep) ==
    /\ Len(rep.summary) = 10
    /\ IF moduleOf(rep) \in Modules
       THEN hasNoFindings(normalize(rep)) /\ normalize(rep).optimizedCodeExample = ""
       ELSE hasNoFindings(rep) /\ rep.optimizedCodeExample = ""

hasCriticalSummaryIssue(m) ==
    \E i \in 1..Len(m.issues) : m.issues[i].severity = "critical" /\ m.issues[i].field = "summary"

\* C9: a report with no hotspots, bottlenecks or anti-patterns, a
\* 10-character summary and no optimized code, validated against tier
\* complex, does not pass the threshold and has at least one critical issue
\* whose field is the summary.
C9_BareReportFails ==
    (isBareReport(qvReport) /\ qvTier = "complex") =>
        \A m \in Results : ~m.passesThreshold /\ hasCriticalSummaryIssue(m)

allQuantified(hotspots) ==
    \A i \in 1..Len(hotspots) : quantPattern_test(hotspots[i].impact)

\* C10 as stated: for every report with findings in which every finding's
\* impact field holds a recognizable quantity, the quantification dimension
\* scores the full 25 points, whatever the other fields of the report.
C10_AsStated ==
    (/\ qvMetrics # <<>>
     /\ qvReport.highRiskHotspots # <<>>
     /\ allQuantified(qvReport.highRiskHotspots))
        => qvMetrics[1].breakdown.quantification = 25

fullyQuantified(rep) ==
    /\ allQuantified(rep.highRiskHotspots)
    /\ \A i \in 1..Len(rep.bottlenecks) :
            \/ quantPattern_test(rep.bottlenecks[i].reason)
            \/ quantPattern_test(rep.bottlenecks[i].suggestion)
    /\ quantPattern_test(rep.optimizedCodeExample)

\* C10, amended: the validator of part_002 scores the full 25 points on
\* quantification for every report in which every hotspot's impact, every
\* bottleneck's reason or suggestion, and the optimized code example hold a
\* recognizable quantity; the validator of geminiService.ts scores them for
\* every report in which every normalized hotspot's impact holds one.
C10_FullyQuantified ==
    /\ (qvMetrics # <<>> /\ fullyQuantified(qvReport))
            => qvMetrics[1].breakdown.quantification = 25
    /\ (relaxedMetrics # <<>> /\ allQuantified(normalize(qvReport).highRiskHotspots))
            => relaxedMetrics[1].breakdown.quantification = 25

\* a validated report with a quantified hotspot and a bottleneck whose only
\* quantity is in its suggestion
C10_Witness ==
    /\ qvMetrics # <<>>
    /\ fullyQuantified(qvReport)
    /\ qvReport.highRiskHotspots # <<>>
    /\ \E i \in 1..Len(qvReport.bottlenecks) :
            /\ ~quantPattern_test(qvReport.bottlenecks[i].reason)
            /\ quantPattern_test(qvReport.bottlenecks[i].suggestion)
    /\ qvMetrics[1].breakdown.quantification = 25


(***************************************************************************)
(* Properties of analyzeProject.                                           *)
(***************************************************************************)
Profiled == profiled # <<>>
ProfiledTwice == profiled # <<>> /\ profiledBefore # <<>>

registryIndex(m) == CHOOSE i \in 1..Len(ALL_MODULES) : ALL_MODULES[i].id = m.id

\* non-increasing priority, and registry order among equal priorities
inPriorityOrder(modules) ==
    \A i, j \in 1..Len(modules) :
        i < j =>
            \/ modules[i].priority > modules[j].priority
            \/ /\ modules[i].priority = modules[j].priority
               /\ registryIndex(modules[i]) < registryIndex(modules[j])

\* C11: the detected modules of a profile are in non-increasing priority
\* order, modules of equal priority keep their registry order, and a second
\* call on the same file list returns the same sequence.
C11_PriorityOrder ==
    /\ Profiled => inPriorityOrder(profiled[1].profile.detectedModules)
    /\ (ProfiledTwice /\ profiled[1].files = profiledBefore[1].files)
        => profiled[1].profile.detectedModules = profiledBefore[1].profile.detectedModules

\* a list was profiled twice and its modules include two of equal priority
\* and two of different priority
C11_Witness ==
    /\ ProfiledTwice
    /\ profiled[1].files = profiledBefore[1].files
    /\ \E i, j \in 1..Len(profiled[1].profile.detectedModules) :
        /\ i < j
        /\ profiled[1].profile.detectedModules[i].priority
            = profiled[1].profile.detectedModules[j].priority
    /\ \E i, j \in 1..Len(profiled[1].profile.detectedModules) :
        profiled[1].profile.detectedModules[i].priority
            > profiled[1].profile.detectedModules[j].priority

tierRank(complexity) ==
    CASE complexity = "simple" -> 0
      [] complexity = "medium" -> 1
      [] complexity = "complex" -> 2
      [] complexity = "enterprise" -> 3

isPrefix(a, b) == Len(a) <= Len(b) /\ SubSeq(b, 1, Len(a)) = a

moduleIds(profile) ==
    {profile.detectedModules[i].id : i \in 1..Len(profile.detectedModules)}

\* C12: when the later of two profiled lists is the earlier one followed by
\* more files, every module detected for the earlier list is detected for
\* the later one and the complexity tier of the later one is not lower.
C12_Monotone ==
    (ProfiledTwice /\ isPrefix(profiledBefore[1].files, profiled[1].files))
        => /\ moduleIds(profiledBefore[1].profile) \subseteq moduleIds(profiled[1].profile)
           /\ tierRank(profiledBefore[1].profile.complexity)
                <= tierRank(profiled[1].profile.complexity)

\* a non-empty list with detected modules was extended, and the extension
\* raised the tier and added a module
C12_Witness ==
    /\ ProfiledTwice
    /\ isPrefix(profiledBefore[1].files, profiled[1].files)
    /\ Len(profiledBefore[1].files) > 0
    /\ Len(profiledBefore[1].files) < Len(profiled[1].files)
    /\ moduleIds(profiledBefore[1].profile) # {}
    /\ moduleIds(profiledBefore[1].profile) # moduleIds(profiled[1].profile)
    /\ tierRank(profiledBefore[1].profile.complexity)
        < tierRank(profiled[1].profile.complexity)

\* C13: profiling the empty file list returns a profile of complexity
\* simple, depth quick and zero files.
C13_EmptyList ==
    (Profiled /\ profiled[1].files = <<>>)
        => /\ profiled[1].profile.complexity = "simple"
           /\ profiled[1].profile.estimatedAnalysisDepth = "quick"
           /\ profiled[1].profile.totalFiles = 0

C13_Witness == Profiled /\ profiled[1].files = <<>>

\* C14: every profile has at least one detected module.
C14_SomeModule ==
    Profiled => Len(profiled[1].profile.detectedModules) > 0

\* C18: the complexity of a profile is the step function of the number of
\* files and the number of detected modules: enterprise above 100 files or 6
\* modules, else complex above 50 or 4, else medium above 20 or 2, else
\* simple.
C18_StepFunction ==
    Profiled =>
        LET nFiles == Len(profiled[1].files)
            nModules == Len(profiled[1].profile.detectedModules)
            tier == profiled[1].profile.complexity
            enterprise == nFiles > 100 \/ nModules > 6
            complex == ~enterprise /\ (nFiles > 50 \/ nModules > 4)
            medium == ~enterprise /\ ~complex /\ (nFiles > 20 \/ nModules > 2)
        IN  /\ tier = "enterprise" <=> enterprise
            /\ tier = "complex" <=> complex
            /\ tier = "medium" <=> medium
            /\ tier = "simple" <=> (~enterprise /\ ~complex /\ ~medium)

\* a list of exactly 21 files with at most two modules was profiled as medium
C18_Witness ==
    /\ Profiled
    /\ Len(profiled[1].files) = 21
    /\ Len(profiled[1].profile.detectedModules) <= 2
    /\ profiled[1].profile.complexity = "medium"


bucket(fl, exts) ==
    Cardinality({i \in 1..Len(fl) : \E ext \in exts : endsWith(fl[i].path, ext)})

\* the bucket with the most files, the first of TypeScript, JavaScript and
\* Python among equals
pluralityWinner(ts, js, py) ==
    IF ts >= js /\ ts >= py THEN "TypeScript"
    ELSE IF js >= py THEN "JavaScript"
    ELSE "Python"

\* C22: primaryLanguage is the language whose extension bucket (.ts/.tsx,
\* .js/.jsx, .py) holds at least as many files as every other bucket, ties
\* going to TypeScript, then JavaScript, then Python.
C22_Plurality ==
    Profiled =>
        profiled[1].profile.primaryLanguage =
            pluralityWinner(bucket(profiled[1].files, {".ts", ".tsx"}),
                            bucket(profiled[1].files, {".js", ".jsx"}),
                            bucket(profiled[1].files, {".py"}))

\* as many JavaScript as Python files, fewer TypeScript files: JavaScript
C22_Witness ==
    /\ Profiled
    /\ bucket(profiled[1].files, {".js", ".jsx"}) = bucket(profiled[1].files, {".py"})
    /\ bucket(profiled[1].files, {".ts", ".tsx"}) < bucket(profiled[1].files, {".py"})
    /\ profiled[1].profile.primaryLanguage = "JavaScript"

(***************************************************************************)
(* Properties of the context preparation.                                  *)
(***************************************************************************)
Prepared == lastRun # <<>> /\ ~lastRun[1].threw
Adaptive == Prepared /\ lastRun[1].variant = "adaptive"

RECURSIVE sumLen(_)
sumLen(parts) == IF parts = <<>> THEN 0 ELSE Len(Head(parts)) + sumLen(Tail(parts))

MARKER_START == "\n[...Context limit reached."
isMarker(part) == matchAt(part, 1, MARKER_START)
markerPositions(run) == {k \in 1..Len(run.loop.parts) : isMarker(run.loop.parts[k])}

\* the length of the joined context: the header parts, the file parts (whose
\* length is totalChars, the file texts counted in full) and the marker
contextLength(run) ==
    sumLen(run.header) + run.loop.totalChars
    + (IF run.loop.stopped THEN Len(run.loop.parts[Len(run.loop.parts)]) ELSE 0)

\* C15: the context of a prepared request (profile header, file headers,
\* contents and truncation marker together) is at most
\* MAX_TOTAL_CONTEXT_CHARS characters long.
C15_WithinBudget ==
    Adaptive => contextLength(lastRun[1]) <= MAX_TOTAL_CONTEXT_CHARS

\* file i of the given list was pushed: its header part followed by its content
pushedAt(run, f) ==
    {k \in 1..(Len(run.loop.parts) - 1) :
        /\ k % 2 = 1
        /\ run.loop.parts[k] = fileHeader(f)
        /\ run.loop.parts[k + 1] = f.content}

allIncludedOnce(run) ==
    /\ ~run.loop.stopped
    /\ markerPositions(run) = {}
    /\ Len(run.loop.parts) = 2 * Len(run.given)
    /\ \A i \in 1..Len(run.given) : Cardinality(pushedAt(run, run.given[i])) = 1

RECURSIVE sumContents(_)
sumContents(fl) == IF fl = <<>> THEN 0 ELSE Head(fl).size + sumContents(Tail(fl))

RECURSIVE sumCosts(_)
sumCosts(fl) ==
    IF fl = <<>> THEN 0
    ELSE Len(fileHeader(Head(fl))) + Head(fl).size + sumCosts(Tail(fl))

\* C16 as stated: when the file contents together are shorter than the
\* budget, no file is omitted and every file appears exactly once.
C16_AsStated ==
    (Adaptive /\ sumContents(lastRun[1].given) < MAX_TOTAL_CONTEXT_CHARS)
        => allIncludedOnce(lastRun[1])

\* C16: when the file headers and file contents together are at most the
\* budget, no file is omitted, there is no marker, and every file appears
\* exactly once.
C16_AllFit ==
    (Adaptive /\ sumCosts(lastRun[1].given) <= MAX_TOTAL_CONTEXT_CHARS)
        => allIncludedOnce(lastRun[1])

\* two files whose headers and contents fill the budget exactly were both
\* included
C16_Witness ==
    /\ Adaptive
    /\ Len(lastRun[1].given) = 2
    /\ sumCosts(lastRun[1].given) = MAX_TOTAL_CONTEXT_CHARS
    /\ allIncludedOnce(lastRun[1])

\* C17: a call of analyzeCodebase, returning or throwing, leaves the
\* caller's file list as it was: the same records in the same order.
C17_FilesOnlyRead ==
    [][(lastRun' # lastRun) => (callerFiles' = callerFiles)]_vars

\* the given files in one of the orders the prioritization allows
isPermutation(order, fl) ==
    /\ Len(order) = Len(fl)
    /\ \A i \in 1..Len(fl) : \E j \in 1..Len(order) : order[j] = fl[i]

isPrioritized(order, profile) ==
    \A i, j \in 1..Len(order) :
        i < j =>
            /\ isHighPriority(order[j], profile) => isHighPriority(order[i], profile)
            /\ (isHighPriority(order[i], profile) = isHighPriority(order[j], profile))
                    => order[i].size <= order[j].size

\* the files pushed by the loop are the first n of the order, and file n + 1,
\* if there is one, is the file that did not fit
isPrefixOf(run, order) ==
    \E n \in 0..Len(order) :
        /\ Len(run.loop.parts) = 2 * n + (IF run.loop.stopped THEN 1 ELSE 0)
        /\ \A k \in 1..n :
            /\ run.loop.parts[2 * k - 1] = fileHeader(order[k])
            /\ run.loop.parts[2 * k] = order[k].content
        /\ run.loop.stopped <=> n < Len(order)
        /\ run.loop.stopped =>
                sumCosts(SubSeq(order, 1, n + 1)) > MAX_TOTAL_CONTEXT_CHARS
        /\ sumCosts(SubSeq(order, 1, n)) <= MAX_TOTAL_CONTEXT_CHARS

\* C19: the files enter the context in prioritized order (high-priority
\* files first, by non-decreasing size within each group), and the files
\* included are a prefix of that order ending before the first file that
\* does not fit.
C19_PrioritizedPrefix ==
    Adaptive =>
        \E profile \in {analyzeProject(lastRun[1].given)} :
            \E order \in [1..Len(lastRun[1].given) -> ContextSamples] :
                /\ isPermutation(order, lastRun[1].given)
                /\ isPrioritized(order, profile)
                /\ isPrefixOf(lastRun[1], order)

\* a larger high-priority file was given after a smaller file of no priority
\* and went first
C19_Witness ==
    /\ Adaptive
    /\ Len(lastRun[1].given) >= 2
    /\ \E profile \in {analyzeProject(lastRun[1].given)} :
        /\ ~isHighPriority(lastRun[1].given[1], profile)
        /\ isHighPriority(lastRun[1].given[2], profile)
        /\ lastRun[1].given[1].size < lastRun[1].given[2].size
        /\ pushedAt(lastRun[1], lastRun[1].given[2]) = {1}

DigitValue(c) == CHOOSE v \in 0..9 : ToString(v) = c

\* parseInt of the digits of s from (one-based) position i on
RECURSIVE parseDigits(_, _, _)
parseDigits(s, i, acc) ==
    IF i <= Len(s) /\ isDigit(SubSeq(s, i, i))
    THEN parseDigits(s, i + 1, 10 * acc + DigitValue(SubSeq(s, i, i)))
    ELSE acc

\* the number of omitted files the marker states
statedOmitted(marker) == parseDigits(marker, Len(MARKER_START) + 2, 0)

omittedFiles(run) ==
    {i \in 1..Len(run.given) : pushedAt(run, run.given[i]) = {}}

\* C20: the context has a truncation marker exactly when a file was left
\* out; there is at most one marker, it is the last part, and the number of
\* omitted files it states is the number of given files not included.
C20_Marker ==
    Adaptive =>
        /\ markerPositions(lastRun[1]) # {} <=> omittedFiles(lastRun[1]) # {}
        /\ markerPositions(lastRun[1]) \subseteq {Len(lastRun[1].loop.parts)}
        /\ markerPositions(lastRun[1]) # {}
            => statedOmitted(lastRun[1].loop.parts[Len(lastRun[1].loop.parts)])
                = Cardinality(omittedFiles(lastRun[1]))

\* a context with one file included and one omitted
C20_Witness ==
    /\ Adaptive
    /\ markerPositions(lastRun[1]) # {}
    /\ Cardinality(omittedFiles(lastRun[1])) >= 1
    /\ Cardinality(omittedFiles(lastRun[1])) < Len(lastRun[1].given)


(***************************************************************************)
(* Properties of the composed system instruction.                          *)
(***************************************************************************)
\* the instruction block of a module as it stands in the joined instruction
instructionBlock(m) ==
    "\n# " \o toUpperCase(m.name) \o "\n\n" \o moduleSystemInstruction(m)

\* the zero-based position of the first occurrence of lit in s
firstIndex(s, lit) ==
    CHOOSE i \in 0..Len(s) :
        /\ matchAt(s, i + 1, lit)
        /\ \A k \in 0..(i - 1) : ~matchAt(s, k + 1, lit)

\* the first min(N, number of detected modules) detected modules
topModules(profile) ==
    LET N == IF profile.complexity = "enterprise" THEN 6
             ELSE IF profile.complexity = "complex" THEN 4
             ELSE 3
        n == IF N < Len(profile.detectedModules) THEN N ELSE Len(profile.detectedModules)
    IN  SubSeq(profile.detectedModules, 1, n)

composedAsClaimed(instruction, top) ==
    /\ \A i \in 1..Len(ALL_MODULES) :
            includes(instruction, instructionBlock(ALL_MODULES[i]))
                <=> \E k \in 1..Len(top) : top[k] = ALL_MODULES[i]
    /\ \A j, k \in 1..Len(top) :
            j < k => firstIndex(instruction, instructionBlock(top[j]))
                        < firstIndex(instruction, instructionBlock(top[k]))
    /\ includes(instruction,
            "\n## FINAL OUTPUT REQUIREMENTS\n1. Focus on the " \o ToString(Len(top))
            \o " module areas detected: " \o join(mapNames(top), ", ") \o "\n2. ")

MaxRepeated == 9

InitRules ==
    /\ NoAnalysis
    /\ NoProject
    /\ apiKey = TRUE
    /\ qvTier \in {"simple", "enterprise"}
    /\ qvReport = [EmptyReport EXCEPT !.summary = SUMMARY_OK,
                                      !.optimizedCodeExample = CODE_FULL,
                                      !.architecturalObservations = <<OBSERVATION_OK>>,
                                      !.antiPatterns = <<"God Object">>]
    /\ qvMetrics = <<>>
    /\ relaxedMetrics = <<>>
    /\ enhancements = <<>>

\* the model's answer lists the hotspot h once more
RepeatHotspot(h) ==
    /\ notValidated
    /\ Len(qvReport.highRiskHotspots) + Len(qvReport.bottlenecks) < MaxRepeated
    /\ qvReport.bottlenecks = <<>>
    /\ inOrder(SampleHotspots, qvReport.highRiskHotspots, h)
    /\ qvReport' = [qvReport EXCEPT !.highRiskHotspots = Append(@, h)]
    /\ UNCHANGED <<qvTier, qvMetrics, relaxedMetrics, enhancements, requestVars, projectVars>>

\* the model's answer lists the bottleneck b once more
RepeatBottleneck(b) ==
    /\ notValidated
    /\ Len(qvReport.highRiskHotspots) + Len(qvReport.bottlenecks) < MaxRepeated
    /\ inOrder(SampleBottlenecks, qvReport.bottlenecks, b)
    /\ qvReport' = [qvReport EXCEPT !.bottlenecks = Append(@, b)]
    /\ UNCHANGED <<qvTier, qvMetrics, relaxedMetrics, enhancements, requestVars, projectVars>>

NextRules ==
    \/ \E i \in 1..Len(SampleHotspots) : RepeatHotspot(SampleHotspots[i])
    \/ \E i \in 1..Len(SampleBottlenecks) : RepeatBottleneck(SampleBottlenecks[i])
    \/ Validate
    \/ ValidateRelaxed

SpecRules == InitRules /\ [][NextRules]_vars

\* the number of issues recorded against the dimension d
issuesOf(metrics, d) == countWhere(metrics.issues, LAMBDA i : i.category = d)

\* C24: each penalty rule is capped below the maximum of its dimension: a
\* dimension against which a single rule has fired, however many findings
\* triggered it, keeps a score above 0, the deduction of that rule being
\* strictly less than the dimension's maximum.
C24_RuleCapped ==
    \A metrics \in Results : \A d \in Dimensions :
        issuesOf(metrics, d) = 1 =>
            /\ metrics.breakdown[d] > 0
            /\ DimensionMax[d] - metrics.breakdown[d] < DimensionMax[d]

\* eight duplicates of one well-formed hotspot: the duplicate rule alone has
\* fired against consistency and has deducted its cap of 5, not 16
C24_Witness ==
    /\ qvMetrics # <<>>
    /\ Len(qvReport.highRiskHotspots) >= 9
    /\ \A i \in 1..Len(qvReport.highRiskHotspots) :
            qvReport.highRiskHotspots[i] = SampleHotspots[1]
    /\ issuesOf(qvMetrics[1], "consistency") = 1
    /\ qvMetrics[1].breakdown.consistency = 10

(***************************************************************************)
(* Properties of the recommendations.                                      *)
(***************************************************************************)
\* the critical block that the issues call for: the header and one line per
\* critical issue, in issue order; empty without a critical issue
criticalBlock(issues) ==
    LET criticalIssues == filterSeq(issues, LAMBDA i : i.severity = "critical")
    IN  IF criticalIssues = <<>> THEN <<>>
        ELSE <<"CRITICAL: Fix these issues before submission:">>
             \o [i \in 1..Len(criticalIssues) |-> "  - " \o criticalIssues[i].message]

\* the score below which a dimension's hint is claimed to appear
CutOff ==
    [quantification |-> 20, specificity |-> 15, actionability |-> 15,
     completeness |-> 15, consistency |-> 12]

\* the words with which the hint of a dimension begins
HintStart ==
    [quantification |-> "Add quantified metrics",
     specificity    |-> "Include specific locations",
     actionability  |-> "Provide concrete fixes",
     completeness   |-> "Add more findings",
     consistency    |-> "Ensure consistent formatting"]

\* the positions of the hint of dimension d in the recommendations
hintPositions(recommendations, d) ==
    {i \in 1..Len(recommendations) : matchAt(recommendations[i], 1, HintStart[d])}

recommendationsAsClaimed(metrics) ==
    \E block \in {criticalBlock(metrics.issues)} :
        /\ Len(block) <= Len(metrics.recommendations)
        /\ SubSeq(metrics.recommendations, 1, Len(block)) = block
        /\ \A i \in (Len(block) + 1)..Len(metrics.recommendations) :
                ~matchAt(metrics.recommendations[i], 1, "CRITICAL")
        /\ \A d \in Dimensions :
                /\ \A i \in hintPositions(metrics.recommendations, d) : i > Len(block)
                /\ (hintPositions(metrics.recommendations, d) # {})
                        <=> (metrics.breakdown[d] < CutOff[d])

\* C25: in the recommendations returned by validate, the critical block (the
\* header and one line per critical issue, in issue order) is present exactly
\* when there is a critical issue and precedes every per-dimension hint, and
\* the hint of a dimension is present exactly when the dimension's score is
\* below its cut-off (quantification 20, specificity 15, actionability 15,
\* completeness 15, consistency 12).
C25_Recommendations == \A metrics \in Results : recommendationsAsClaimed(metrics)

\* C29: in the result of validate, a dimension of the breakdown is below its
\* maximum exactly when the issue list holds at least one issue of that
\* category; a dimension at its maximum has no issue recorded against it.
C29_IssuesMatchPenalties ==
    \A metrics \in Results : \A d \in Dimensions :
        (metrics.breakdown[d] < DimensionMax[d]) <=> (issuesOf(metrics, d) >= 1)

\* both validators have scored a report with penalised and with untouched
\* dimensions, one of them clamped at 0
C29_Witness ==
    \/ /\ qvMetrics # <<>>
       /\ qvMetrics[1].breakdown.completeness = 0
       /\ issuesOf(qvMetrics[1], "completeness") >= 5
       /\ qvMetrics[1].breakdown.specificity = 20
       /\ issuesOf(qvMetrics[1], "specificity") = 0
    \/ /\ relaxedMetrics # <<>>
       /\ relaxedMetrics[1].breakdown.completeness = 10
       /\ issuesOf(relaxedMetrics[1], "completeness") = 2
       /\ relaxedMetrics[1].breakdown.consistency = 15
       /\ issuesOf(relaxedMetrics[1], "consistency") = 0

(***************************************************************************)
(* Properties of the returned report.                                      *)
(***************************************************************************)
\* C28: every hotspot and every bottleneck of a report that analyzeCodebase
\* returns carries a category: a finding whose category the model response
\* omits has the fallback 'General' when the report is returned.
C28_EveryFindingCategorized ==
    Returned =>
        /\ \A i \in 1..Len(outcome[1].report.highRiskHotspots) :
                ~falsy(outcome[1].report.highRiskHotspots[i].category)
        /\ \A i \in 1..Len(outcome[1].report.bottlenecks) :
                ~falsy(outcome[1].report.bottlenecks[i].category)

(***************************************************************************)
(* Enhancement of reports.  A report of up to MaxFindings findings is      *)
(* handed to one of the two enhancers, and what the enhancer returned is   *)
(* handed to it once more.                                                 *)
(***************************************************************************)
SUMMARY_NONE == ""

CODE_AFTER_ONLY == "// AFTER: cached\nconst users = await cache.get(key)"
CODE_BEFORE_ONLY == "// before: one query per user\nfor (const u of users) await load(u)"
CODE_TTL == "ttl=1500ms"

EnhancerSummaries == {SUMMARY_NONE, SUMMARY_10, SUMMARY_OK}
EnhancerCodes == {CODE_NONE, CODE_PROSE, CODE_FULL, CODE_AFTER_ONLY, CODE_BEFORE_ONLY, CODE_TTL}
Enhancers == {"part_002", "geminiService"}

InitEnhance ==
    /\ NoAnalysis
    /\ NoProject
    /\ apiKey = TRUE
    /\ qvTier = "simple"
    /\ \E summary \in EnhancerSummaries, code \in EnhancerCodes :
            qvReport = [EmptyReport EXCEPT !.summary = summary,
                                           !.optimizedCodeExample = code,
                                           !.architecturalObservations = <<OBSERVATION_OK>>]
    /\ qvMetrics = <<>>
    /\ relaxedMetrics = <<>>
    /\ enhancements = <<>>

\* the model's answer has one hotspot more
ReportHotspot(h) ==
    /\ enhancements = <<>>
    /\ AddHotspot(h)

\* the model's answer has one bottleneck more
ReportBottleneck(b) ==
    /\ enhancements = <<>>
    /\ AddBottleneck(b)

\* OutputEnhancer.enhance(qvReport)
Enhance(variant) ==
    /\ enhancements = <<>>
    /\ enhancements' = <<enhanceCall(variant, qvReport)>>
    /\ qvReport' = enhancements'[1].report
    /\ UNCHANGED <<qvTier, qvMetrics, relaxedMetrics, requestVars, projectVars>>

\* OutputEnhancer.enhance(enhanced), enhanced being what the first call returned
EnhanceAgain ==
    /\ Len(enhancements) = 1
    /\ enhancements' =
            Append(enhancements, enhanceCall(enhancements[1].variant, enhancements[1].enhanced))
    /\ UNCHANGED <<qvReport, qvTier, qvMetrics, relaxedMetrics, requestVars, projectVars>>

NextEnhance ==
    \/ \E i \in 1..Len(SampleHotspots) : ReportHotspot(SampleHotspots[i])
    \/ \E i \in 1..Len(SampleBottlenecks) : ReportBottleneck(SampleBottlenecks[i])
    \/ \E variant \in Enhancers : Enhance(variant)
    \/ EnhanceAgain

SpecEnhance == InitEnhance /\ [][NextEnhance]_vars

(***************************************************************************)
(* Properties of the enhancers.                                            *)
(***************************************************************************)
EnhancerCalls == {enhancements[i] : i \in 1..Len(enhancements)}

\* toLowerCase().includes('before') and toLowerCase().includes('after'), the
\* markers the actionability check looks for
hasBefore(code) == includes(toLowerCase(code), "before")
hasAfter(code) == includes(toLowerCase(code), "after")

\* the code example under both section headers, its first half under BEFORE
\* and its second half under AFTER
isSplitInHalf(code, enhancedCode) ==
    \E half \in {Len(code) \div 2, (Len(code) + 1) \div 2} :
        includes(enhancedCode,
                 "BEFORE: Current implementation\n" \o SubSeq(code, 1, half)
                 \o "\n\n// AFTER: Optimized version\n" \o SubSeq(code, half + 1, Len(code)))

\* C26: whenever the code example given to enhance lacks a before marker or
\* an after marker, the enhanced code example has both a BEFORE and an AFTER
\* section header, the original content split in half between them (first
\* half under BEFORE, second half under AFTER, nothing lost).
C26_BothHeaders ==
    \A call \in EnhancerCalls :
        (/\ call.variant = "part_002"
         /\ ~hasBefore(call.given.optimizedCodeExample)
                \/ ~hasAfter(call.given.optimizedCodeExample))
            => isSplitInHalf(call.given.optimizedCodeExample, call.enhanced.optimizedCodeExample)

\* the values of the numerals written in s (maximal runs of digits)
numbersIn(s) ==
    {parseDigits(s, i, 0) :
        i \in {k \in 1..Len(s) : isDigit(SubSeq(s, k, k)) /\ ~isDigit(charAt(s, k - 1))}}

\* the texts of a report
textsOf(rep) ==
    {rep.projectName, rep.timestamp, rep.summary, rep.optimizedCodeExample}
    \cup {rep.antiPatterns[i] : i \in 1..Len(rep.antiPatterns)}
    \cup {rep.architecturalObservations[i] : i \in 1..Len(rep.architecturalObservations)}
    \cup UNION {{h.file, h.issue, h.impact, h.category} :
                    h \in {rep.highRiskHotspots[i] : i \in 1..Len(rep.highRiskHotspots)}}
    \cup UNION {{b.location, b.pattern, b.reason, b.suggestion, b.category} :
                    b \in {rep.bottlenecks[i] : i \in 1..Len(rep.bottlenecks)}}

\* the numeric values of a report: those written in its texts, the number of
\* files scanned and the numbers of its hotspots and bottlenecks
numbersOf(rep) ==
    UNION {numbersIn(t) : t \in textsOf(rep)}
    \cup {rep.totalFilesScanned, Len(rep.highRiskHotspots), Len(rep.bottlenecks)}

\* C27: enhance never fails, makes no model call, does not modify the report
\* object it is given, and changes surface form only: the hotspot,
\* bottleneck, anti-pattern and observation lists of the result equal those
\* of the input, and no numeric value that was not in the input is
\* introduced (in its texts, or as the number of its findings).
C27_SurfaceOnly ==
    \A call \in EnhancerCalls :
        /\ ~call.threw
        /\ sent = <<>> /\ inFlight = 0
        /\ call.report = call.given
        /\ call.enhanced.highRiskHotspots = call.given.highRiskHotspots
        /\ call.enhanced.bottlenecks = call.given.bottlenecks
        /\ call.enhanced.antiPatterns = call.given.antiPatterns
        /\ call.enhanced.architecturalObservations = call.given.architecturalObservations
        /\ numbersIn(call.enhanced.summary) \cup numbersIn(call.enhanced.optimizedCodeExample)
                \subseteq numbersOf(call.given)

\* C30: enhance is idempotent, enhance(enhance(r)) = enhance(r): a summary
\* that was too short is at least 50 characters long after one enhancement
\* and is not extended again.
C30_Idempotent ==
    /\ \A call \in EnhancerCalls :
            Len(call.given.summary) < 50 => Len(call.enhanced.summary) >= 50
    /\ Len(enhancements) = 2 => enhancements[2].enhanced = enhancements[1].enhanced

====
